---- MODULE Spec2Model ----
(***************************************************************************)
(* A model of sql-code-analyzer: the scanners that mine SQL string         *)
(* literals from source files, the two statement validators, the           *)
(* structural parser, the complexity analyzer and the statistics           *)
(* aggregator.                                                             *)
(*                                                                         *)
(* A text is a sequence of one-character strings, so that the regular      *)
(* expressions of the source are modelled by what they match, character    *)
(* by character.                                                           *)
(***************************************************************************)
EXTENDS Integers, Sequences, FiniteSets, TLC

(***************************************************************************)
(* Characters, and the primitives of Python's str and re that the source   *)
(* uses.                                                                   *)
(***************************************************************************)
UpperSeq == <<"A","B","C","D","E","F","G","H","I","J","K","L","M",
              "N","O","P","Q","R","S","T","U","V","W","X","Y","Z">>
LowerSeq == <<"a","b","c","d","e","f","g","h","i","j","k","l","m",
              "n","o","p","q","r","s","t","u","v","w","x","y","z">>
UpperSet == {UpperSeq[i] : i \in 1..Len(UpperSeq)}
LowerSet == {LowerSeq[i] : i \in 1..Len(LowerSeq)}
LetterSet == UpperSet \cup LowerSet
DigitSet == {"0","1","2","3","4","5","6","7","8","9"}
\* [a-zA-Z0-9_], which is \w on the ASCII texts of the model
WordSet == LetterSet \cup DigitSet \cup {"_"}
\* \s
SpaceSet == {" ", "\t", "\n", "\r"}
QUOTE == "\""
APOS == "'"

UpTable == [c \in LowerSet |-> UpperSeq[CHOOSE i \in 1..Len(LowerSeq) : LowerSeq[i] = c]]
Up(c) == IF c \in LowerSet THEN UpTable[c] ELSE c
\* str.upper(); a pattern compiled with re.IGNORECASE is matched on Upper(text)
Upper(s) == [i \in 1..Len(s) |-> Up(s[i])]

At(s, i) == IF i >= 1 /\ i <= Len(s) THEN s[i] ELSE ""
IsWord(c) == c \in WordSet
IsSpace(c) == c \in SpaceSet
\* the literal lit occurs in s at position i
LitAt(s, i, lit) ==
    /\ i >= 1
    /\ i + Len(lit) - 1 <= Len(s)
    /\ \A k \in 1..Len(lit) : s[i + k - 1] = lit[k]
\* \b between positions i-1 and i
Boundary(s, i) == IsWord(At(s, i - 1)) # IsWord(At(s, i))
\* the least j in lo..hi with P(j), hi+1 when there is none
Least(S, none) == IF S = {} THEN none ELSE CHOOSE j \in S : \A k \in S : j <= k
First(lo, hi, P(_)) == Least({j \in lo..hi : P(j)}, hi + 1)
\* the end (exclusive) of the longest run of characters of class C from i
RunEnd(s, i, C) == IF i > Len(s) THEN i ELSE First(i, Len(s), LAMBDA j : s[j] \notin C)
\* \s* from i
SkipSpace(s, i) == RunEnd(s, i, SpaceSet)
\* the first position >= i that holds c, Len(s)+1 when there is none
Find(s, i, c) == IF i > Len(s) THEN i ELSE First(i, Len(s), LAMBDA j : s[j] = c)
\* the first position >= i where lit occurs, Len(s)+1 when there is none
FindLit(s, i, lit) == IF i > Len(s) THEN i ELSE First(i, Len(s), LAMBDA j : LitAt(s, j, lit))
\* re.search(r'\bWORD\b') / the substring test `lit in s`
HasWord(s, w) ==
    \E i \in 1..Len(s) : LitAt(s, i, w) /\ Boundary(s, i) /\ Boundary(s, i + Len(w))
HasSub(s, lit) == \E i \in 1..Len(s) : LitAt(s, i, lit)
StartsWith(s, lit) == LitAt(s, 1, lit)
\* str.count(lit): the non-overlapping occurrences, left to right
RECURSIVE CountFrom(_, _, _)
CountFrom(s, i, lit) ==
    LET p == FindLit(s, i, lit) IN
    IF p > Len(s) THEN 0 ELSE 1 + CountFrom(s, p + Len(lit), lit)
Count(s, lit) == CountFrom(s, 1, lit)
\* str.strip() / str.lstrip()
LStrip(s) == SubSeq(s, SkipSpace(s, 1), Len(s))
Strip(s) ==
    LET a == SkipSpace(s, 1)
        n == Len(s) - a + 1
        \* the number of trailing whitespace characters
        r == IF n <= 0 THEN 0 ELSE First(0, n - 1, LAMBDA k : ~IsSpace(s[Len(s) - k]))
    IN  SubSeq(s, a, Len(s) - r)
\* the alternative of an alternation of literals that matches at i (the first
\* in the order of alts), 0 when none does (bounded: inside \b(...)\b)
AltAt(s, i, alts, bounded) ==
    First(1, Len(alts), LAMBDA k :
        /\ LitAt(s, i, alts[k])
        /\ bounded => (Boundary(s, i) /\ Boundary(s, i + Len(alts[k])))) % (Len(alts) + 1)
\* the matches of re.findall for an alternation of literals: the literals
\* matched, left to right, non-overlapping
RECURSIVE FindAllAlt(_, _, _, _)
FindAllAlt(s, i, alts, bounded) ==
    LET p == IF i > Len(s) THEN i
             ELSE First(i, Len(s), LAMBDA j : AltAt(s, j, alts, bounded) # 0)
    IN  IF p > Len(s) THEN <<>>
        ELSE LET lit == alts[AltAt(s, p, alts, bounded)]
             IN  <<lit>> \o FindAllAlt(s, p + Len(lit), alts, bounded)

(***************************************************************************)
(* The words of the catalogs: KW.select is the keyword SELECT, in upper    *)
(* case; the field names are in lower case because WITH, UNION, EXCEPT,    *)
(* CASE and IN are reserved words of TLA+.                                 *)
(***************************************************************************)
KW == [
  select |-> <<"S","E","L","E","C","T">>, insert |-> <<"I","N","S","E","R","T">>,
  update |-> <<"U","P","D","A","T","E">>, delete |-> <<"D","E","L","E","T","E">>,
  create |-> <<"C","R","E","A","T","E">>, alter |-> <<"A","L","T","E","R">>,
  drop |-> <<"D","R","O","P">>, truncate |-> <<"T","R","U","N","C","A","T","E">>,
  merge |-> <<"M","E","R","G","E">>, grant |-> <<"G","R","A","N","T">>,
  revoke |-> <<"R","E","V","O","K","E">>, with |-> <<"W","I","T","H">>,
  execute |-> <<"E","X","E","C","U","T","E">>, begin |-> <<"B","E","G","I","N">>,
  commit |-> <<"C","O","M","M","I","T">>, rollback |-> <<"R","O","L","L","B","A","C","K">>,
  set |-> <<"S","E","T">>, exec |-> <<"E","X","E","C">>, call |-> <<"C","A","L","L">>,
  explain |-> <<"E","X","P","L","A","I","N">>, unknown |-> <<"U","N","K","N","O","W","N">>,
  from |-> <<"F","R","O","M">>, where |-> <<"W","H","E","R","E">>,
  group_by |-> <<"G","R","O","U","P"," ","B","Y">>, having |-> <<"H","A","V","I","N","G">>,
  order_by |-> <<"O","R","D","E","R"," ","B","Y">>, join |-> <<"J","O","I","N">>,
  inner_join |-> <<"I","N","N","E","R"," ","J","O","I","N">>,
  left_join |-> <<"L","E","F","T"," ","J","O","I","N">>,
  right_join |-> <<"R","I","G","H","T"," ","J","O","I","N">>,
  full_join |-> <<"F","U","L","L"," ","J","O","I","N">>,
  cross_join |-> <<"C","R","O","S","S"," ","J","O","I","N">>,
  union |-> <<"U","N","I","O","N">>, union_all |-> <<"U","N","I","O","N"," ","A","L","L">>,
  intersect |-> <<"I","N","T","E","R","S","E","C","T">>, except |-> <<"E","X","C","E","P","T">>,
  into |-> <<"I","N","T","O">>, using |-> <<"U","S","I","N","G">>, on |-> <<"O","N">>,
  as |-> <<"A","S">>, all |-> <<"A","L","L">>,
  table |-> <<"T","A","B","L","E">>, view |-> <<"V","I","E","W">>, index |-> <<"I","N","D","E","X">>,
  function |-> <<"F","U","N","C","T","I","O","N">>, procedure |-> <<"P","R","O","C","E","D","U","R","E">>,
  trigger |-> <<"T","R","I","G","G","E","R">>, sequence |-> <<"S","E","Q","U","E","N","C","E">>,
  database |-> <<"D","A","T","A","B","A","S","E">>, schema |-> <<"S","C","H","E","M","A">>,
  query |-> <<"Q","U","E","R","Y">>, upsert |-> <<"U","P","S","E","R","T">>, rename |-> <<"R","E","N","A","M","E">>,
  comment |-> <<"C","O","M","M","E","N","T">>, deny |-> <<"D","E","N","Y">>,
  savepoint |-> <<"S","A","V","E","P","O","I","N","T">>,
  set_transaction |-> <<"S","E","T"," ","T","R","A","N","S","A","C","T","I","O","N">>,
  unique |-> <<"U","N","I","Q","U","E">>, subquery |-> <<"S","U","B","Q","U","E","R","Y">>,
  sub_query |-> <<"S","U","B","-","Q","U","E","R","Y">>, outer |-> <<"O","U","T","E","R">>,
  case |-> <<"C","A","S","E">>, left |-> <<"L","E","F","T">>, right |-> <<"R","I","G","H","T">>,
  full |-> <<"F","U","L","L">>, cross |-> <<"C","R","O","S","S">>, inner |-> <<"I","N","N","E","R">>,
  natural |-> <<"N","A","T","U","R","A","L">>, values |-> <<"V","A","L","U","E","S">> ]

\* a word between two spaces, as in `" JOIN " in query_text`
Spaced(w) == <<" ">> \o w \o <<" ">>

(***************************************************************************)
(* validators/sql_validator.py: SQLValidator, the heuristic validator      *)
(***************************************************************************)
sql_commands == <<KW.select, KW.insert, KW.update, KW.delete, KW.create, KW.alter,
                  KW.drop, KW.truncate, KW.merge, KW.grant, KW.revoke, KW.with, KW.execute>>

sql_clauses == <<KW.from, KW.where, KW.group_by, KW.having, KW.order_by, KW.join,
                 KW.inner_join, KW.left_join, KW.right_join, KW.full_join,
                 KW.cross_join, KW.union, KW.union_all, KW.intersect, KW.except>>

\* sql_operators, sql_datatypes and common_db_objects, joined into syntax_pattern
sql_operators == <<
  <<" ","A","S"," ">>, <<" ","O","N"," ">>, <<" ","A","N","D"," ">>, <<" ","O","R"," ">>,
  <<" ","I","N"," ">>, <<" ","N","O","T"," ","I","N"," ">>, <<" ","I","S"," ","N","U","L","L">>,
  <<" ","I","S"," ","N","O","T"," ","N","U","L","L">>, <<" ","B","E","T","W","E","E","N"," ">>,
  <<" ","L","I","K","E"," ">>, <<" ","E","X","I","S","T","S"," ">>, <<" ","D","E","S","C">>,
  <<" ","A","S","C">>, <<" ","L","I","M","I","T"," ">>, <<" ","O","F","F","S","E","T"," ">> >>
sql_datatypes == <<
  <<" ","I","N","T"," ">>, <<" ","I","N","T","E","G","E","R"," ">>, <<" ","V","A","R","C","H","A","R">>,
  <<" ","C","H","A","R">>, <<" ","T","E","X","T"," ">>, <<" ","D","A","T","E"," ">>,
  <<" ","D","A","T","E","T","I","M","E"," ">>, <<" ","T","I","M","E","S","T","A","M","P"," ">>,
  <<" ","B","O","O","L","E","A","N"," ">>, <<" ","F","L","O","A","T"," ">>, <<" ","D","O","U","B","L","E"," ">>,
  <<" ","D","E","C","I","M","A","L"," ">>, <<" ","N","U","M","E","R","I","C"," ">>,
  <<" ","B","I","G","I","N","T"," ">>, <<" ","S","M","A","L","L","I","N","T"," ">>,
  <<" ","B","L","O","B"," ">>, <<" ","C","L","O","B"," ">> >>
\* each object type keeps its trailing space, as in the source
common_db_objects == <<KW.table \o <<" ">>, KW.view \o <<" ">>, KW.index \o <<" ">>,
                       KW.function \o <<" ">>, KW.procedure \o <<" ">>, KW.trigger \o <<" ">>,
                       KW.sequence \o <<" ">>, KW.database \o <<" ">>, KW.schema \o <<" ">> >>

\* (?:create|select|update|delete|drop|insert|alter)
fp_method_verbs == <<
  <<"c","r","e","a","t","e">>, <<"s","e","l","e","c","t">>, <<"u","p","d","a","t","e">>,
  <<"d","e","l","e","t","e">>, <<"d","r","o","p">>, <<"i","n","s","e","r","t">>, <<"a","l","t","e","r">> >>
\* (?:select|from|where|table|join|update|delete|drop)
fp_dotted_words == <<
  <<"s","e","l","e","c","t">>, <<"f","r","o","m">>, <<"w","h","e","r","e">>, <<"t","a","b","l","e">>,
  <<"j","o","i","n">>, <<"u","p","d","a","t","e">>, <<"d","e","l","e","t","e">>, <<"d","r","o","p">> >>
\* (?:Select|Update|Delete|Insert) and (?:Select|Insert|Update|Delete)
fp_ui_verbs == <<
  <<"S","e","l","e","c","t">>, <<"U","p","d","a","t","e">>, <<"D","e","l","e","t","e">>,
  <<"I","n","s","e","r","t">> >>
\* (?:button|label|text)
fp_ui_nouns == << <<"b","u","t","t","o","n">>, <<"l","a","b","e","l">>, <<"t","e","x","t">> >>
\* (?:get|set|fetch|retrieve|load|save|process|handle|perform)
fp_accessor_prefixes == <<
  <<"g","e","t">>, <<"s","e","t">>, <<"f","e","t","c","h">>, <<"r","e","t","r","i","e","v","e">>,
  <<"l","o","a","d">>, <<"s","a","v","e">>, <<"p","r","o","c","e","s","s">>,
  <<"h","a","n","d","l","e">>, <<"p","e","r","f","o","r","m">> >>

\* r'(?:create|...)[A-Z][a-zA-Z0-9_]*\(' : a camelCase method call
FpMethodCall(t) ==
    \E i \in 1..Len(t) : \E v \in 1..Len(fp_method_verbs) :
        LET w == fp_method_verbs[v] IN
        /\ LitAt(t, i, w)
        /\ At(t, i + Len(w)) \in UpperSet
        /\ At(t, RunEnd(t, i + Len(w) + 1, WordSet)) = "("
\* r'\b(?:select|from|...)\.[a-zA-Z_]' : dotted access on a reserved word
FpDottedAccess(t) ==
    \E i \in 1..Len(t) : \E v \in 1..Len(fp_dotted_words) :
        LET w == fp_dotted_words[v] IN
        /\ LitAt(t, i, w)
        /\ Boundary(t, i)
        /\ At(t, i + Len(w)) = "."
        /\ At(t, i + Len(w) + 1) \in LetterSet \cup {"_"}
\* r'"(?:Select|Update|Delete|Insert)[^"]*(?:button|label|text)"' : UI copy
FpUiText(t) ==
    \E i \in 1..Len(t) : \E v \in 1..Len(fp_ui_verbs) :
        LET w == fp_ui_verbs[v]
            q == Find(t, i + 1 + Len(w), QUOTE)
        IN  /\ t[i] = QUOTE
            /\ LitAt(t, i + 1, w)
            /\ q <= Len(t)
            /\ \E n \in 1..Len(fp_ui_nouns) :
                  /\ q - Len(fp_ui_nouns[n]) >= i + 1 + Len(w)
                  /\ LitAt(t, q - Len(fp_ui_nouns[n]), fp_ui_nouns[n])
\* r'\b(?:get|set|...)[A-Z][a-zA-Z]*(?:Select|Insert|Update|Delete)[a-zA-Z]*\b'
FpAccessorName(t) ==
    \E i \in 1..Len(t) : \E p \in 1..Len(fp_accessor_prefixes) :
        LET w == fp_accessor_prefixes[p]
            e == RunEnd(t, i + Len(w) + 1, LetterSet)
        IN  /\ LitAt(t, i, w)
            /\ Boundary(t, i)
            /\ At(t, i + Len(w)) \in UpperSet
            /\ ~IsWord(At(t, e))
            /\ \E k \in (i + Len(w) + 1)..(e - 1) : \E v \in 1..Len(fp_ui_verbs) :
                  LitAt(t, k, fp_ui_verbs[v]) /\ k + Len(fp_ui_verbs[v]) <= e
\* self.false_positive_patterns, searched on the raw text
MatchesFalsePositive(t) ==
    FpMethodCall(t) \/ FpDottedAccess(t) \/ FpUiText(t) \/ FpAccessorName(t)

\* re.sub(r"'[^']*'", "''", text): each quoted literal, left to right
RECURSIVE SubSingleQuoted(_, _)
SubSingleQuoted(t, i) ==
    LET a == Find(t, i, APOS)
        b == Find(t, a + 1, APOS)
    IN  IF b > Len(t) THEN SubSeq(t, i, Len(t))
        ELSE SubSeq(t, i, a - 1) \o <<APOS, APOS>> \o SubSingleQuoted(t, b + 1)
\* re.sub(r'"[^"]*\s[^"]*"', '""', text): a pair of double quotes with
\* whitespace (and no double quote) between them, left to right
RECURSIVE SubDoubleQuoted(_, _)
SubDoubleQuoted(t, i) ==
    LET a == IF i > Len(t) THEN i
             ELSE First(i, Len(t), LAMBDA j :
                     /\ t[j] = QUOTE
                     /\ Find(t, j + 1, QUOTE) <= Len(t)
                     /\ \E k \in (j + 1)..(Find(t, j + 1, QUOTE) - 1) : IsSpace(t[k]))
    IN  IF a > Len(t) THEN SubSeq(t, i, Len(t))
        ELSE SubSeq(t, i, a - 1) \o <<QUOTE, QUOTE>>
                 \o SubDoubleQuoted(t, Find(t, a + 1, QUOTE) + 1)
\* SQLValidator._remove_string_literals
RemoveStringLiterals(t) == SubDoubleQuoted(SubSingleQuoted(t, 1), 1)

\* sql_start_pattern: r'^\s*(?:SELECT|INSERT|...)\s+', re.IGNORECASE
SqlStartPattern(u) ==
    \E c \in 1..Len(sql_commands) :
        /\ LitAt(u, SkipSpace(u, 1), sql_commands[c])
        /\ IsSpace(At(u, SkipSpace(u, 1) + Len(sql_commands[c])))
\* re.match(r'^\s*(\w+)', clean_text).group(1).upper()
FirstWord(u) == SubSeq(u, SkipSpace(u, 1), RunEnd(u, SkipSpace(u, 1), WordSet) - 1)
\* r'SELECT\s+(?:@@|[A-Za-z0-9_.]+\()', re.IGNORECASE : a function call or a system variable
SelectExpression(u) ==
    \E i \in 1..Len(u) :
        LET p == SkipSpace(u, i + Len(KW.select))
            e == RunEnd(u, p, WordSet \cup {"."})
        IN  /\ LitAt(u, i, KW.select)
            /\ IsSpace(At(u, i + Len(KW.select)))
            /\ \/ At(u, p) = "@" /\ At(u, p + 1) = "@"
               \/ e > p /\ At(u, e) = "("
\* any(re.search(rf'\b{obj}\b', clean_text, re.IGNORECASE) for obj in self.common_db_objects)
HasDbObject(u) == \E o \in 1..Len(common_db_objects) : HasWord(u, common_db_objects[o])
\* self.clause_pattern.findall(clean_text) and self.syntax_pattern.findall(clean_text)
ClauseMatches(u) == FindAllAlt(u, 1, sql_clauses, TRUE)
SyntaxMatches(u) ==
    FindAllAlt(u, 1, sql_operators \o sql_datatypes \o common_db_objects, FALSE)

MinSqlLength == 10
MinClauseMatches == 2
MinSyntaxMatches == 3

Verdict(ok, why) == [valid |-> ok, reason |-> why]

\* the per-command checks of is_valid_sql on the literal-stripped, upper-cased text
HeuristicCommandCheck(command, u) ==
    IF command = KW.select /\ ~HasWord(u, KW.from)
    THEN IF ~SelectExpression(u) THEN Verdict(FALSE, "SELECT without FROM clause")
         ELSE Verdict(TRUE, "Valid SQL statement")
    ELSE IF command = KW.update /\ ~HasWord(u, KW.set)
    THEN Verdict(FALSE, "UPDATE without SET clause")
    ELSE IF command = KW.insert /\ ~HasWord(u, KW.into)
    THEN Verdict(FALSE, "INSERT without INTO clause")
    ELSE IF command = KW.create /\ ~HasDbObject(u)
    THEN Verdict(FALSE, "CREATE without valid object type")
    ELSE IF command = KW.drop /\ ~HasDbObject(u)
    THEN Verdict(FALSE, "DROP without valid object type")
    ELSE Verdict(TRUE, "Valid SQL statement")

\* a deviation from is_valid_sql: the false-positive patterns are searched on
\* the literal-stripped text
FilterOnCleanText(query_text) ==
    IF Len(query_text) < MinSqlLength THEN Verdict(FALSE, "Text too short to be SQL")
    ELSE LET clean == Upper(RemoveStringLiterals(query_text)) IN
         IF MatchesFalsePositive(RemoveStringLiterals(query_text))
         THEN Verdict(FALSE, "Matched false positive pattern")
         ELSE IF SqlStartPattern(clean)
         THEN HeuristicCommandCheck(FirstWord(clean), clean)
         ELSE IF Len(ClauseMatches(clean)) >= MinClauseMatches
         THEN Verdict(TRUE, "Contains multiple SQL clauses")
         ELSE IF Len(SyntaxMatches(clean)) >= MinSyntaxMatches
         THEN Verdict(TRUE, "Contains multiple SQL syntax elements")
         ELSE Verdict(FALSE, "Insufficient SQL syntax markers")
\* SQLValidator.is_valid_sql
SQLValidator_is_valid_sql(query_text) ==
    IF Len(query_text) < MinSqlLength THEN Verdict(FALSE, "Text too short to be SQL")
    ELSE LET clean == Upper(RemoveStringLiterals(query_text)) IN
         IF MatchesFalsePositive(query_text)
         THEN Verdict(FALSE, "Matched false positive pattern")
         ELSE IF SqlStartPattern(clean)
         THEN HeuristicCommandCheck(FirstWord(clean), clean)
         ELSE IF Len(ClauseMatches(clean)) >= MinClauseMatches
         THEN Verdict(TRUE, "Contains multiple SQL clauses")
         ELSE IF Len(SyntaxMatches(clean)) >= MinSyntaxMatches
         THEN Verdict(TRUE, "Contains multiple SQL syntax elements")
         ELSE Verdict(FALSE, "Insufficient SQL syntax markers")

\* r'WITH\s+.+?(?:\s+,\s+.+?)*?\s+(SELECT|INSERT|UPDATE|DELETE|MERGE)\s+' with
\* re.DOTALL, as the backtracking matcher runs it.  WithTail(u, p) is the
\* keyword captured by r'(?:\s+,\s+.+?)*?\s+(...)\s+' matched at p, <<>> when
\* it does not match there.
with_dml_keywords == <<KW.select, KW.insert, KW.update, KW.delete, KW.merge>>
DmlAfterSpace(u, p) ==
    LET q == SkipSpace(u, p)
        k == AltAt(u, q, with_dml_keywords, FALSE)
    IN  IF q > p /\ k # 0 /\ IsSpace(At(u, q + Len(with_dml_keywords[k])))
        THEN with_dml_keywords[k] ELSE <<>>
\* r'\s+.+?' followed by the rest of a pattern: the whitespace ends at b and
\* is n >= 1 characters long.  The matcher tries the rest at b+1, b+2, ...,
\* Len(u)+1 and then, giving whitespace back to .+?, at b, b-1, ..., b-n+2.
\* The first of these positions where Ok holds, 0 when there is none.
LazyRest(u, b, n, Ok(_)) ==
    LET up == First(b + 1, Len(u) + 1, Ok)
        down == {e \in (b - n + 2)..b : Ok(e)}
    IN  IF up <= Len(u) + 1 THEN up
        ELSE IF down # {} THEN CHOOSE e \in down : \A f \in down : f <= e
        ELSE 0
RECURSIVE WithTail(_, _)
WithTail(u, p) ==
    IF DmlAfterSpace(u, p) # <<>> THEN DmlAfterSpace(u, p)
    ELSE LET c == SkipSpace(u, p)
             d == SkipSpace(u, c + 1)
         IN  IF c > p /\ At(u, c) = "," /\ d > c + 1
             THEN LET n == LazyRest(u, d, d - c - 1, LAMBDA e : WithTail(u, e) # <<>>)
                  IN  IF n = 0 THEN <<>> ELSE WithTail(u, n)
             ELSE <<>>
\* where the rest of the pattern matches after r'WITH\s+.+?' from i, 0 if nowhere
WithRestAt(u, i) ==
    LET b == SkipSpace(u, i + Len(KW.with)) IN
    IF LitAt(u, i, KW.with) /\ b > i + Len(KW.with)
    THEN LazyRest(u, b, b - i - Len(KW.with), LAMBDA e : WithTail(u, e) # <<>>)
    ELSE 0
\* the group captured by re.search of that pattern, <<>> when there is no match
WithMainCommand(u) ==
    LET i == First(1, Len(u), LAMBDA x : WithRestAt(u, x) # 0)
    IN  IF i > Len(u) THEN <<>> ELSE WithTail(u, WithRestAt(u, i))

\* SQLValidator.get_query_type
SQLValidator_get_query_type(text) ==
    LET query_start == Upper(LStrip(text)) IN
    IF Len(text) = 0 THEN KW.unknown
    ELSE IF StartsWith(query_start, KW.with)
    THEN IF WithMainCommand(query_start) # <<>> THEN WithMainCommand(query_start) ELSE KW.with
    ELSE IF AltAt(query_start, 1, sql_commands, FALSE) # 0
    THEN sql_commands[AltAt(query_start, 1, sql_commands, FALSE)]
    ELSE KW.unknown

(***************************************************************************)
(* validators/sqlparse_validator.py: SqlParseValidator, the parser-backed  *)
(* validator and its fallback                                              *)
(***************************************************************************)
sql_keywords == <<KW.select, KW.insert, KW.update, KW.delete, KW.create, KW.alter, KW.drop,
                  KW.truncate, KW.merge, KW.grant, KW.revoke, KW.begin, KW.commit, KW.rollback,
                  KW.with, KW.set, KW.execute, KW.exec, KW.call, KW.explain>>

\* self.false_method_pattern: r'(?:create|...)[A-Z][a-zA-Z0-9_]*\s*\('
FalseMethodPattern(t) ==
    \E i \in 1..Len(t) : \E v \in 1..Len(fp_method_verbs) :
        LET w == fp_method_verbs[v] IN
        /\ LitAt(t, i, w)
        /\ At(t, i + Len(w)) \in UpperSet
        /\ At(t, SkipSpace(t, RunEnd(t, i + Len(w) + 1, WordSet))) = "("

\* the keyword of sql_keywords matched by rf'^\s*{keyword}\b', 0 when none is
LeadingKeyword(u) ==
    First(1, Len(sql_keywords), LAMBDA k :
        /\ LitAt(u, SkipSpace(u, 1), sql_keywords[k])
        /\ Boundary(u, SkipSpace(u, 1) + Len(sql_keywords[k]))) % (Len(sql_keywords) + 1)
\* r'\b(TABLE|VIEW|INDEX|PROCEDURE|FUNCTION|TRIGGER)\b'
create_object_types == <<KW.table, KW.view, KW.index, KW.procedure, KW.function, KW.trigger>>
basic_sql_clauses == <<KW.from, KW.where, KW.group_by, KW.order_by, KW.having, KW.join,
                       KW.inner_join, KW.left_join>>

\* SqlParseValidator._basic_validate
BasicValidate(text) ==
    LET u == Upper(text)
        k == LeadingKeyword(u)
        clause_count == Cardinality({c \in 1..Len(basic_sql_clauses) : HasWord(u, basic_sql_clauses[c])})
    IN  IF k # 0
        THEN IF sql_keywords[k] = KW.select /\ ~HasWord(u, KW.from)
             THEN IF ~SelectExpression(u) THEN Verdict(FALSE, "SELECT without FROM clause")
                  ELSE Verdict(TRUE, "Starts with SQL keyword")
             ELSE IF sql_keywords[k] = KW.insert /\ ~HasWord(u, KW.into)
             THEN Verdict(FALSE, "INSERT without INTO clause")
             ELSE IF sql_keywords[k] = KW.update /\ ~HasWord(u, KW.set)
             THEN Verdict(FALSE, "UPDATE without SET clause")
             ELSE IF /\ sql_keywords[k] = KW.create
                     /\ ~\E o \in 1..Len(create_object_types) : HasWord(u, create_object_types[o])
             THEN Verdict(FALSE, "CREATE without valid object type")
             ELSE Verdict(TRUE, "Starts with SQL keyword")
        ELSE IF clause_count >= MinClauseMatches
        THEN Verdict(TRUE, "Contains multiple SQL clauses")
        ELSE Verdict(FALSE, "Insufficient SQL syntax markers")

(***************************************************************************)
(* The external tokenizer, sqlparse.parse: the validator reads the         *)
(* top-level tokens of the first statement, whether a token is a keyword,  *)
(* and its value.  A token starts at every top-level position that is not  *)
(* inside a word: a word, a parenthesised group, a quoted literal, and     *)
(* every other character (each whitespace character too) are one token.    *)
(* A word next to a dot or directly before "(" is a name, not a keyword.   *)
(***************************************************************************)
ParenDepth(t, i) ==
    Cardinality({k \in 1..(i - 1) : t[k] = "("}) - Cardinality({k \in 1..(i - 1) : t[k] = ")"})
\* inside a quoted literal or a double-quoted name, which are one token each
InLiteral(t, i) ==
    \/ Cardinality({k \in 1..(i - 1) : t[k] = APOS}) % 2 = 1
    \/ Cardinality({k \in 1..(i - 1) : t[k] = QUOTE}) % 2 = 1
\* statements[0]: the text up to the first ";" outside a literal
FirstStatement(t) ==
    LET e == First(1, Len(t), LAMBDA j : t[j] = ";" /\ ~InLiteral(t, j))
    IN  SubSeq(t, 1, IF e > Len(t) THEN Len(t) ELSE e)
TokenStart(t, i) ==
    /\ ParenDepth(t, i) <= 0
    /\ ~InLiteral(t, i)
    /\ ~IsWord(t[i]) \/ ~IsWord(At(t, i - 1))
\* stmt.tokens, as the positions where its tokens start
TokenStarts(t) == {i \in 1..Len(t) : TokenStart(t, i)}
\* the last position of the token that starts at i
TokenLast(t, i) ==
    LET e == IF t[i] = "(" THEN First(i + 1, Len(t), LAMBDA j : t[j] = ")" /\ ParenDepth(t, j + 1) <= 0)
             ELSE IF t[i] \in {APOS, QUOTE} THEN Find(t, i + 1, t[i])
             ELSE IF IsWord(t[i]) THEN RunEnd(t, i, WordSet) - 1
             ELSE i
    IN  IF e > Len(t) THEN Len(t) ELSE e
\* token.value.upper()
TokenValue(t, i) == Upper(SubSeq(t, i, TokenLast(t, i)))
\* token.is_keyword, for the keywords the validator asks about
TokenIsKeyword(t, i) ==
    /\ t[i] \in LetterSet
    /\ At(t, i - 1) # "."
    /\ At(t, TokenLast(t, i) + 1) # "("
    /\ At(t, SkipSpace(t, TokenLast(t, i) + 1)) # "."
    /\ \/ \E k \in 1..Len(sql_keywords) : TokenValue(t, i) = sql_keywords[k]
       \/ TokenValue(t, i) \in {KW.from, KW.into}
HasKeywordToken(t, w) ==
    \E i \in TokenStarts(t) : TokenIsKeyword(t, i) /\ TokenValue(t, i) = w

\* SqlParseValidator._get_statement_type: the first keyword token of sql_keywords, <<>> for None
GetStatementType(t) ==
    LET ks == {i \in TokenStarts(t) :
                 /\ TokenIsKeyword(t, i)
                 /\ \E k \in 1..Len(sql_keywords) : TokenValue(t, i) = sql_keywords[k]}
    IN  IF ks = {} THEN <<>>
        ELSE TokenValue(t, CHOOSE i \in ks : \A j \in ks : i <= j)

\* ['TABLE', 'VIEW', 'INDEX', 'FUNCTION', 'PROCEDURE', 'TRIGGER']
structure_object_types == <<KW.table, KW.view, KW.index, KW.function, KW.procedure, KW.trigger>>
MinSelectTokens == 2
\* the object type is looked for in the values of the two tokens after CREATE
CreateHasObject(t) ==
    \E i \in TokenStarts(t) :
        /\ TokenIsKeyword(t, i) /\ TokenValue(t, i) = KW.create
        /\ \E j \in TokenStarts(t) :
              /\ j > i
              /\ Cardinality({x \in TokenStarts(t) : i < x /\ x <= j}) <= 2
              /\ \E o \in 1..Len(structure_object_types) :
                    HasSub(TokenValue(t, j), structure_object_types[o])

\* SqlParseValidator._validate_statement_structure
ValidateStatementStructure(t, stmt_type) ==
    IF stmt_type = KW.select
    THEN IF ~HasKeywordToken(t, KW.from)
         THEN IF Cardinality(TokenStarts(t)) > MinSelectTokens
              THEN Verdict(TRUE, "SELECT expression")
              ELSE Verdict(FALSE, "SELECT without FROM clause")
         ELSE Verdict(TRUE, "Valid structure")
    ELSE IF stmt_type = KW.insert
    THEN IF ~HasKeywordToken(t, KW.into) THEN Verdict(FALSE, "INSERT without INTO clause")
         ELSE Verdict(TRUE, "Valid structure")
    ELSE IF stmt_type = KW.update
    THEN IF ~HasKeywordToken(t, KW.set) THEN Verdict(FALSE, "UPDATE without SET clause")
         ELSE Verdict(TRUE, "Valid structure")
    ELSE IF stmt_type = KW.create
    THEN IF ~CreateHasObject(t) THEN Verdict(FALSE, "CREATE without valid object type")
         ELSE Verdict(TRUE, "Valid structure")
    ELSE Verdict(TRUE, "Valid structure")

\* SqlParseValidator._validate_with_sqlparse
ValidateWithSqlparse(text) ==
    LET stmt == FirstStatement(text) IN
    IF Len(stmt) = 0 THEN Verdict(FALSE, "No SQL statement found by parser")
    ELSE IF GetStatementType(stmt) = <<>> THEN Verdict(FALSE, "Unrecognized SQL statement type")
    ELSE IF ~ValidateStatementStructure(stmt, GetStatementType(stmt)).valid
    THEN ValidateStatementStructure(stmt, GetStatementType(stmt))
    ELSE Verdict(TRUE, "Valid statement")

\* SqlParseValidator.is_valid_sql; available is SQLPARSE_AVAILABLE
SqlParseValidator_is_valid_sql(text, available) ==
    IF FalseMethodPattern(text) THEN Verdict(FALSE, "Matches a method name pattern")
    ELSE IF Len(text) < MinSqlLength THEN Verdict(FALSE, "Text too short to be SQL")
    ELSE IF available THEN ValidateWithSqlparse(text)
    ELSE BasicValidate(text)

\* SqlParseValidator.get_query_type
SqlParseValidator_get_query_type(text, available) ==
    IF ~available
    THEN LET upper_text == Upper(LStrip(text)) IN
         IF AltAt(upper_text, 1, sql_keywords, FALSE) # 0
         THEN sql_keywords[AltAt(upper_text, 1, sql_keywords, FALSE)]
         ELSE IF StartsWith(upper_text, KW.with) /\ WithMainCommand(upper_text) # <<>>
         THEN WithMainCommand(upper_text)
         ELSE KW.unknown
    ELSE IF Len(FirstStatement(text)) = 0 \/ GetStatementType(FirstStatement(text)) = <<>>
    THEN KW.unknown
    ELSE GetStatementType(FirstStatement(text))

(***************************************************************************)
(* scanner/enhanced_base_scanner.py: EnhancedBaseScanner                   *)
(***************************************************************************)
MinQueryLength == 8
\* EnhancedBaseScanner.is_valid_sql_query; use_sqlparse: self.sqlparse_validator is set
IsValidSqlQuery(text, use_sqlparse, available) ==
    IF Len(text) < MinQueryLength THEN FALSE
    ELSE IF use_sqlparse THEN SqlParseValidator_is_valid_sql(text, available).valid
    ELSE SQLValidator_is_valid_sql(text).valid
\* EnhancedBaseScanner.detect_query_type
DetectQueryType(text, use_sqlparse, available) ==
    IF Len(text) = 0 THEN KW.unknown
    ELSE IF use_sqlparse THEN SqlParseValidator_get_query_type(text, available)
    ELSE SQLValidator_get_query_type(text)

(***************************************************************************)
(* scanner/java_scanner.py: the extraction catalog.  Every pattern is      *)
(* compiled with re.IGNORECASE | re.DOTALL, so it is matched on U, the     *)
(* upper-cased content; the capture is cut from the content itself.  A     *)
(* match is <<first, last, end>>: the capture and the last position of the *)
(* whole match; <<>> is no match.                                          *)
(***************************************************************************)
\* the keywords of sql_command_prefixes, each followed by \s+ in the patterns
scanner_sql_keywords ==
    <<KW.select, KW.insert, KW.update, KW.delete, KW.merge, KW.upsert, KW.truncate,
      KW.create, KW.alter, KW.drop, KW.rename, KW.comment,
      KW.grant, KW.revoke, KW.deny,
      KW.commit, KW.rollback, KW.savepoint, KW.set_transaction,
      KW.table, KW.view, KW.index, KW.procedure, KW.function, KW.trigger, KW.schema>>
sql_var_names ==
    <<<<"S","Q","L">>,
      <<"Q","U","E","R","Y">>,
      <<"S","Q","L","Q","U","E","R","Y">>,
      <<"S","Q","L","S","T","R","I","N","G">>,
      <<"S","Q","L","S","T","A","T","E","M","E","N","T">>,
      <<"Q","U","E","R","Y","S","T","R","I","N","G">>,
      <<"S","E","L","E","C","T","S","Q","L">>,
      <<"I","N","S","E","R","T","S","Q","L">>,
      <<"U","P","D","A","T","E","S","Q","L">>,
      <<"D","E","L","E","T","E","S","Q","L">>,
      <<"D","D","L","Q","U","E","R","Y">>,
      <<"S","Q","L","T","E","X","T">>,
      <<"H","Q","L">>,
      <<"J","P","Q","L">>>>
jdbc_methods ==
    <<<<"E","X","E","C","U","T","E","Q","U","E","R","Y">>,
      <<"E","X","E","C","U","T","E","U","P","D","A","T","E">>,
      <<"E","X","E","C","U","T","E">>,
      <<"P","R","E","P","A","R","E","S","T","A","T","E","M","E","N","T">>,
      <<"P","R","E","P","A","R","E","C","A","L","L">>,
      <<"C","R","E","A","T","E","S","T","A","T","E","M","E","N","T">>>>
orm_methods ==
    <<<<"C","R","E","A","T","E","Q","U","E","R","Y">>,
      <<"C","R","E","A","T","E","N","A","T","I","V","E","Q","U","E","R","Y">>,
      <<"C","R","E","A","T","E","S","Q","L","Q","U","E","R","Y">>,
      <<"C","R","E","A","T","E","N","A","M","E","D","Q","U","E","R","Y">>,
      <<"G","E","T","N","A","M","E","D","Q","U","E","R","Y">>,
      <<"C","R","E","A","T","E","C","R","I","T","E","R","I","A">>,
      <<"C","R","E","A","T","E","S","T","O","R","E","D","P","R","O","C","E","D","U","R","E","Q","U","E","R","Y">>>>
\* the alternations of the remaining patterns, by pattern
pattern_words ==
    [decl |-> <<<<"S","T","R","I","N","G">>,
      <<"V","A","R">>>>,
     concat_calls |-> <<<<"A","P","P","E","N","D">>,
      <<"C","O","N","C","A","T">>,
      <<"F","O","R","M","A","T">>,
      <<"P","R","I","N","T","F">>,
      <<"S","T","R","I","N","G",".","F","O","R","M","A","T">>>>,
     concat_keywords |-> <<KW.select, KW.insert, KW.update, KW.delete, KW.create, KW.alter, KW.drop, KW.merge, KW.join, KW.union>>,
     annotations |-> <<<<"N","A","M","E","D","Q","U","E","R","Y">>,
      <<"Q","U","E","R","Y">>,
      <<"N","A","M","E","D","N","A","T","I","V","E","Q","U","E","R","Y">>,
      <<"S","Q","L","R","E","S","U","L","T","S","E","T","M","A","P","P","I","N","G">>>>,
     templates |-> <<<<"J","D","B","C","T","E","M","P","L","A","T","E">>,
      <<"N","A","M","E","D","P","A","R","A","M","E","T","E","R","J","D","B","C","T","E","M","P","L","A","T","E">>>>,
     template_methods |-> <<<<"Q","U","E","R","Y">>,
      <<"U","P","D","A","T","E">>,
      <<"E","X","E","C","U","T","E">>,
      <<"Q","U","E","R","Y","F","O","R","O","B","J","E","C","T">>,
      <<"Q","U","E","R","Y","F","O","R","L","I","S","T">>,
      <<"Q","U","E","R","Y","F","O","R","M","A","P">>,
      <<"Q","U","E","R","Y","F","O","R","R","O","W","S","E","T">>>>,
     mybatis |-> <<<<"S","E","L","E","C","T">>,
      <<"I","N","S","E","R","T">>,
      <<"U","P","D","A","T","E">>,
      <<"D","E","L","E","T","E">>,
      <<"S","E","L","E","C","T","P","R","O","V","I","D","E","R">>,
      <<"I","N","S","E","R","T","P","R","O","V","I","D","E","R">>,
      <<"U","P","D","A","T","E","P","R","O","V","I","D","E","R">>,
      <<"D","E","L","E","T","E","P","R","O","V","I","D","E","R">>>>,
     multi_decl |-> <<<<"S","T","R","I","N","G">>,
      <<"S","T","R","I","N","G","B","U","I","L","D","E","R">>,
      <<"S","T","R","I","N","G","B","U","F","F","E","R">>,
      <<"V","A","R">>>>,
     multi_keywords |-> <<KW.select, KW.insert, KW.update, KW.delete, KW.create, KW.alter>>]

\* JavaScanner._create_java_sql_patterns: the patterns in the order of the list
sql_patterns ==
    LET PerKeyword(k) == <<[kind |-> "assign", word |-> scanner_sql_keywords[k]],
                           [kind |-> "raw", word |-> scanner_sql_keywords[k]]>>
        RECURSIVE Prefixes(_)
        Prefixes(k) == IF k > Len(scanner_sql_keywords) THEN <<>> ELSE PerKeyword(k) \o Prefixes(k + 1)
    IN  Prefixes(1)
        \o <<[kind |-> "sql_var", word |-> <<>>]>>
        \o [k \in 1..Len(jdbc_methods) |-> [kind |-> "call", word |-> jdbc_methods[k]]]
        \o [k \in 1..Len(orm_methods) |-> [kind |-> "call", word |-> orm_methods[k]]]
        \o <<[kind |-> "concat", word |-> <<>>], [kind |-> "annotation", word |-> <<>>],
             [kind |-> "template", word |-> <<>>], [kind |-> "mybatis", word |-> <<>>],
             [kind |-> "multi_line", word |-> <<>>]>>

\* one of words, then `what`, at i: the position after both, 0 when there is none
WordThen(U, i, words, what) ==
    LET S == {k \in 1..Len(words) : LitAt(U, i, words[k]) /\ At(U, i + Len(words[k])) \in what}
    IN  IF S = {} THEN 0 ELSE i + Len(words[CHOOSE k \in S : TRUE]) + 1
\* (?:String|var)\s+\w+\s*=\s* at i: the position after it, 0 when it does not match;
\* a: where the name starts, b: where it ends
DeclValue(U, a, b) ==
    IF b > a /\ At(U, SkipSpace(U, b)) = "=" THEN SkipSpace(U, SkipSpace(U, b) + 1) ELSE 0
DeclName(U, a) == DeclValue(U, a, RunEnd(U, a, WordSet))
DeclHead(U, i, words) ==
    IF WordThen(U, i, words, SpaceSet) = 0 THEN 0
    ELSE DeclName(U, SkipSpace(U, WordThen(U, i, words, SpaceSet)))
\* "(.*?)" with the opening quote at q: the capture runs to the next quote
Quoted(U, q) ==
    IF q >= 1 /\ At(U, q) = QUOTE /\ Find(U, q + 1, QUOTE) <= Len(U)
    THEN <<q + 1, Find(U, q + 1, QUOTE) - 1, Find(U, q + 1, QUOTE)>> ELSE <<>>
\* (KEYWORD\s+.*?)"[;\)] from c, the position after the opening quote(s);
\* the capture ends before the first closing mark that ; or ) follows
KeywordLiteral(U, c, word, closing) ==
    LET from == c + Len(word) + 1
        e == IF from > Len(U) THEN from
             ELSE First(from, Len(U), LAMBDA j :
                     /\ LitAt(U, j, closing)
                     /\ Len(closing) = 1 => At(U, j + 1) \in {";", ")"})
    IN  IF LitAt(U, c, word) /\ IsSpace(At(U, c + Len(word))) /\ e <= Len(U)
        THEN <<c, e - 1, e + (IF Len(closing) = 1 THEN 1 ELSE Len(closing) - 1)>> ELSE <<>>
\* the quoted text from q holds one of the keywords: "([^"]*KEYWORD[^"]*)"
QuotedWithKeyword(U, q, keywords) ==
    IF Quoted(U, q) # <<>> /\ \E k \in 1..Len(keywords) :
          HasSub(SubSeq(U, Quoted(U, q)[1], Quoted(U, q)[2]), keywords[k])
    THEN Quoted(U, q) ELSE <<>>
\* (?:\s*\+\s*"[^"]*")* from e + 1: the last position of the repetition
RECURSIVE Continuation(_, _)
Continuation(U, e) ==
    LET p == SkipSpace(U, e + 1)
        q == SkipSpace(U, p + 1)
    IN  IF At(U, p) = "+" /\ Quoted(U, q) # <<>> THEN Continuation(U, Quoted(U, q)[3]) ELSE e
\* [^)]*query\s*=\s*"(.*?)" from a: [^)]* is greedy, so the last "query =" before the first )
QueryValue(U, p) == Quoted(U, SkipSpace(U, SkipSpace(U, p + 5) + 1))
AnnotationQuery(U, a) ==
    LET S == {p \in a..(Find(U, a, ")") - 1) :
                /\ LitAt(U, p, KW.query)
                /\ At(U, SkipSpace(U, p + 5)) = "="
                /\ QueryValue(U, p) # <<>>}
    IN  IF a = 0 \/ S = {} THEN <<>> ELSE QueryValue(U, CHOOSE p \in S : \A r \in S : r <= p)

\* "(KEYWORD\s+.*?)"[;\)] after the declaration head that ends before d
AssignedLiteral(U, d, word, opening) ==
    IF d # 0 /\ LitAt(U, d, opening) THEN KeywordLiteral(U, d + Len(opening), word, opening) ELSE <<>>
\* "(.*?)"[;\)] with the opening quote at q
VarValue(U, q) ==
    LET e == First(q + 1, Len(U), LAMBDA j : U[j] = QUOTE /\ At(U, j + 1) \in {";", ")"})
    IN  IF At(U, q) = QUOTE /\ q < Len(U) /\ e <= Len(U) THEN <<q + 1, e - 1, e + 1>> ELSE <<>>
\* (?:sql|query|...)\s*=\s*"(.*?)"[;\)] at i
SqlVarAssignment(U, i) ==
    LET S == {k \in 1..Len(sql_var_names) :
                /\ LitAt(U, i, sql_var_names[k])
                /\ At(U, SkipSpace(U, i + Len(sql_var_names[k]))) = "="}
    IN  IF S = {} THEN <<>>
        ELSE VarValue(U, SkipSpace(U, SkipSpace(U, i + Len(sql_var_names[CHOOSE k \in S : TRUE])) + 1))
\* (?:append|concat|...)\s*\(\s*"([^"]*KEYWORD[^"]*)" at i
ConcatCall(U, i) ==
    LET S == {k \in 1..Len(pattern_words.concat_calls) :
                /\ LitAt(U, i, pattern_words.concat_calls[k])
                /\ At(U, SkipSpace(U, i + Len(pattern_words.concat_calls[k]))) = "("}
    IN  IF S = {} THEN <<>>
        ELSE QuotedWithKeyword(U, SkipSpace(U, SkipSpace(U, i + Len(pattern_words.concat_calls[CHOOSE k \in S : TRUE])) + 1),
                               pattern_words.concat_keywords)
\* \s*"(.*?)" from b, the position after the opening parenthesis; 0: no call
QuotedArgument(U, b) == IF b # 0 THEN Quoted(U, SkipSpace(U, b)) ELSE <<>>
\* (?:jdbcTemplate|...)\.(?:query|...)\(\s*"(.*?)" from a, the position after the dot
TemplateCall(U, a) ==
    IF a = 0 THEN <<>> ELSE QuotedArgument(U, WordThen(U, a, pattern_words.template_methods, {"("}))
\* the literal m of a multi-line declaration and the literals concatenated to it
Concatenated(U, m) == IF m # <<>> THEN <<m[1], m[2], Continuation(U, m[3])>> ELSE <<>>
\* \+?\s*"([^"]*KEYWORD[^"]*)"(?:\s*\+\s*"[^"]*")* from h
MultiLineLiteral(U, h) ==
    IF h = 0 THEN <<>>
    ELSE Concatenated(U, QuotedWithKeyword(U, IF At(U, h) = "+" THEN SkipSpace(U, h + 1) ELSE h,
                                           pattern_words.multi_keywords))

\* pattern.match at position i
MatchAt(U, i, pattern) ==
    CASE pattern.kind = "assign" ->
           AssignedLiteral(U, DeclHead(U, i, pattern_words.decl), pattern.word, <<QUOTE>>)
      [] pattern.kind = "raw" ->
           AssignedLiteral(U, DeclHead(U, i, pattern_words.decl), pattern.word, <<QUOTE, QUOTE, QUOTE>>)
      [] pattern.kind = "sql_var" -> SqlVarAssignment(U, i)
      [] pattern.kind = "call" ->
           IF LitAt(U, i, pattern.word) /\ At(U, i + Len(pattern.word)) = "("
           THEN Quoted(U, SkipSpace(U, i + Len(pattern.word) + 1)) ELSE <<>>
      [] pattern.kind = "concat" -> ConcatCall(U, i)
      [] pattern.kind = "annotation" ->
           IF At(U, i) = "@" THEN AnnotationQuery(U, WordThen(U, i + 1, pattern_words.annotations, {"("})) ELSE <<>>
      [] pattern.kind = "template" -> TemplateCall(U, WordThen(U, i, pattern_words.templates, {"."}))
      [] pattern.kind = "mybatis" ->
           IF At(U, i) = "@" THEN QuotedArgument(U, WordThen(U, i + 1, pattern_words.mybatis, {"("})) ELSE <<>>
      [] pattern.kind = "multi_line" -> MultiLineLiteral(U, DeclHead(U, i, pattern_words.multi_decl))

\* the leftmost match of S, a set of <<start, match>>; none is the match that is no match
Leftmost(S, none) ==
    IF \A m \in S : m[2] = none THEN none
    ELSE (CHOOSE m \in S : m[2] # none /\ \A n \in S : n[2] # none => m[1] <= n[1])[2]
\* pattern.findall(content): the captures of the matches, left to right, non-overlapping
RECURSIVE FindAll(_, _, _, _)
FindAllFrom(content, U, m, pattern) ==
    IF m = <<>> THEN <<>>
    ELSE <<SubSeq(content, m[1], m[2])>> \o FindAll(content, U, m[3] + 1, pattern)
FindAll(content, U, i, pattern) ==
    FindAllFrom(content, U, Leftmost({<<j, MatchAt(U, j, pattern)>> : j \in i..Len(U)}, <<>>), pattern)

\* re.sub(r'"\s*\+\s*"', '', content) and re.sub(r'"\s*\+\s*\n\s*"', ' ', content):
\* the last position of a match that starts at i, 0 when there is none
ConcatJoint(t, i, needs_newline) ==
    LET p == SkipSpace(t, i + 1)
        q == SkipSpace(t, p + 1)
    IN  IF /\ At(t, i) = QUOTE /\ At(t, p) = "+" /\ At(t, q) = QUOTE
           /\ needs_newline => \E k \in (p + 1)..(q - 1) : t[k] = "\n"
        THEN q ELSE 0
RECURSIVE SubConcat(_, _, _, _)
SubConcat(t, i, needs_newline, replacement) ==
    LET p == IF i > Len(t) THEN i ELSE First(i, Len(t), LAMBDA j : ConcatJoint(t, j, needs_newline) # 0)
    IN  IF p > Len(t) THEN SubSeq(t, i, Len(t))
        ELSE SubSeq(t, i, p - 1) \o replacement
             \o SubConcat(t, ConcatJoint(t, p, needs_newline) + 1, needs_newline, replacement)
Preprocess(content) == SubConcat(SubConcat(content, 1, FALSE, <<>>), 1, TRUE, <<" ">>)

\* match.strip().replace('\n', ' ').replace('\r', '')
CleanQuery(match) ==
    LET st == Strip(match)
        nl == [k \in 1..Len(st) |-> IF st[k] = "\n" THEN " " ELSE st[k]]
    IN  SelectSeq(nl, LAMBDA c : c # "\r")

\* the matches of all patterns on a file content, in the order the loops visit them
RECURSIVE MatchesFrom(_, _)
MatchesFrom(content, k) ==
    IF k > Len(sql_patterns) THEN <<>>
    ELSE FindAll(content, Upper(content), 1, sql_patterns[k]) \o MatchesFrom(content, k + 1)
AllMatches(content) == MatchesFrom(Preprocess(content), 1)

(***************************************************************************)
(* parsers/sql_parser.py: SQLParser.  The patterns are compiled with       *)
(* re.IGNORECASE and matched on U, the upper-cased text.                   *)
(***************************************************************************)
\* the keys of query_type_patterns, in the order of the dict
parser_query_types ==
    <<KW.select, KW.insert, KW.update, KW.delete, KW.create, KW.alter,
      KW.drop, KW.truncate, KW.merge, KW.grant, KW.revoke>>

\* SQLParser.identify_query_type, on the upper-cased text
TypeOfUpper(U) ==
    LET s == SkipSpace(U, 1)
        \* r'WITH\s+.*?(?:\s*,\s*.*?)*?\s+(SELECT|INSERT|UPDATE|DELETE|MERGE)\s+': the lazy
        \* parts end at the first keyword that whitespace precedes and follows
        Main(i) == {k \in (i + 6)..Len(U) :
                      /\ IsSpace(U[k - 1])
                      /\ AltAt(U, k, with_dml_keywords, FALSE) # 0
                      /\ IsSpace(At(U, k + Len(with_dml_keywords[AltAt(U, k, with_dml_keywords, FALSE)])))}
        W == {i \in 1..Len(U) : LitAt(U, i, KW.with) /\ IsSpace(At(U, i + 4)) /\ Main(i) # {}}
        first_with == CHOOSE i \in W : \A j \in W : i <= j
        main == CHOOSE k \in Main(first_with) : \A j \in Main(first_with) : k <= j
        typed == AltAt(U, s, parser_query_types, FALSE)
    IN  IF Len(U) = 0 THEN KW.unknown
        ELSE IF LitAt(U, s, KW.with) /\ IsSpace(At(U, s + 4)) /\ W # {}
        THEN with_dml_keywords[AltAt(U, main, with_dml_keywords, FALSE)]
        ELSE IF typed # 0 THEN parser_query_types[typed]
        ELSE IF \E i \in 1..Len(U) :
                  /\ LitAt(U, i, KW.union) /\ SkipSpace(U, i + 5) > i + 5
                  /\ \/ LitAt(U, SkipSpace(U, i + 5), KW.select)
                     \/ /\ LitAt(U, SkipSpace(U, i + 5), KW.all)
                        /\ SkipSpace(U, SkipSpace(U, i + 5) + 3) > SkipSpace(U, i + 5) + 3
                        /\ LitAt(U, SkipSpace(U, SkipSpace(U, i + 5) + 3), KW.select)
        THEN KW.select
        ELSE KW.unknown
IdentifyQueryType(query_text) == TypeOfUpper(Upper(query_text))

\* table_patterns: the words before the table name (each followed by \s+),
\* and what follows the name; form "index" is (?:UNIQUE\s+)?INDEX\s+name\s+ON\s+,
\* form "on" is \s+.*?\s+ON\s+
table_patterns(query_type) ==
    LET P(words, form, alias) == [words |-> words, form |-> form, alias |-> alias] IN
    CASE query_type = KW.select -> <<P(<<KW.from>>, "plain", TRUE), P(<<KW.join>>, "plain", TRUE)>>
      [] query_type = KW.update -> <<P(<<KW.update>>, "plain", TRUE)>>
      [] query_type = KW.insert -> <<P(<<KW.insert, KW.into>>, "plain", FALSE)>>
      [] query_type = KW.delete -> <<P(<<KW.delete, KW.from>>, "plain", TRUE)>>
      [] query_type = KW.merge -> <<P(<<KW.merge, KW.into>>, "plain", TRUE), P(<<KW.using>>, "plain", TRUE)>>
      [] query_type = KW.create -> <<P(<<KW.create, KW.table>>, "plain", FALSE), P(<<KW.create>>, "index", FALSE),
                                     P(<<KW.create, KW.view>>, "plain", FALSE)>>
      [] query_type = KW.alter -> <<P(<<KW.alter, KW.table>>, "plain", FALSE)>>
      [] query_type = KW.drop -> <<P(<<KW.drop, KW.table>>, "plain", FALSE), P(<<KW.drop>>, "index", FALSE),
                                   P(<<KW.drop, KW.view>>, "plain", FALSE)>>
      [] query_type = KW.truncate -> <<P(<<KW.truncate, KW.table>>, "plain", FALSE)>>
      [] query_type = KW.grant -> <<P(<<KW.grant>>, "on", FALSE)>>
      [] query_type = KW.revoke -> <<P(<<KW.revoke>>, "on", FALSE)>>
      [] OTHER -> <<>>
\* [a-zA-Z0-9_\.\[\]"]
TableChars == WordSet \cup {".", "[", "]", QUOTE}

\* words, each followed by \s+, from i: the position after them, 0 when they do not match
RECURSIVE WordsAt(_, _, _)
WordsAt(U, i, words) ==
    IF words = <<>> THEN i
    ELSE IF LitAt(U, i, Head(words)) /\ IsSpace(At(U, i + Len(Head(words))))
    THEN WordsAt(U, SkipSpace(U, i + Len(Head(words))), Tail(words))
    ELSE 0
\* ([a-zA-Z0-9_\.\[\]"]+) at t, the position after the words of a pattern (0: no match)
NameStart(U, t) == IF t # 0 /\ At(U, t) \in TableChars THEN t ELSE 0
\* \s+ON\s+ from j: the position after it, 0 when it does not match
OnAfter(U, j) == IF IsSpace(At(U, j)) THEN WordsAt(U, SkipSpace(U, j), <<KW.on>>) ELSE 0
\* (?:UNIQUE\s+)?INDEX\s+ from w
IndexWords(U, w, words) ==
    IF w = 0 THEN 0
    ELSE IF words = <<KW.create>> /\ WordsAt(U, w, <<KW.unique>>) # 0
    THEN WordsAt(U, w, <<KW.unique, KW.index>>)
    ELSE WordsAt(U, w, <<KW.index>>)
\* (?:[a-zA-Z0-9_]+)\s+ON\s+ from x
IndexedTable(U, x) ==
    IF x = 0 \/ RunEnd(U, x, WordSet) = x THEN 0 ELSE OnAfter(U, RunEnd(U, x, WordSet))
\* \s+.*?\s+ON\s+ after the first word: the first ON, after the first whitespace
\* character, with whitespace before it and whitespace and a name character after it
GrantedTable(U, i, w, words) ==
    IF w = 0 THEN 0
    ELSE OnAfter(U, First(i + Len(words[1]) + 1, Len(U), LAMBDA j :
                          OnAfter(U, j) # 0 /\ At(U, OnAfter(U, j)) \in TableChars))
\* the position of the table name of a pattern that matches from i, 0 when it does not
TableNameAt(U, i, pattern) ==
    NameStart(U, CASE pattern.form = "plain" -> WordsAt(U, i, pattern.words)
                   [] pattern.form = "index" ->
                        IndexedTable(U, IndexWords(U, WordsAt(U, i, pattern.words), pattern.words))
                   [] pattern.form = "on" ->
                        GrantedTable(U, i, WordsAt(U, i, pattern.words), pattern.words))
\* (?:\s+(?:AS\s+)?([a-zA-Z0-9_]+))? after a name that ends before e: the end (exclusive)
AliasEnd(U, e) ==
    LET a == SkipSpace(U, e)
        b == WordsAt(U, a, <<KW.as>>)
    IN  IF a = e \/ ~IsWord(At(U, a)) THEN e
        ELSE IF b # 0 /\ IsWord(At(U, b)) THEN RunEnd(U, b, WordSet)
        ELSE RunEnd(U, a, WordSet)
\* pattern.finditer(query_text): the set of match.group(1); t: where the
\* leftmost name starts, e: where it ends
RECURSIVE FindTables(_, _, _, _)
TableName(text, U, t, e, pattern) ==
    {SubSeq(text, t, e - 1)}
    \cup FindTables(text, U, IF pattern.alias THEN AliasEnd(U, e) ELSE e, pattern)
FindTablesFrom(text, U, t, pattern) ==
    IF t = 0 THEN {} ELSE TableName(text, U, t, RunEnd(U, t, TableChars), pattern)
FindTables(text, U, i, pattern) ==
    FindTablesFrom(text, U, Leftmost({<<j, TableNameAt(U, j, pattern)>> : j \in i..Len(U)}, 0), pattern)
\* WITH\s+([a-zA-Z0-9_]+)(?:\s*\([^)]*\))?\s+AS: the set of match.group(1)
CteNames(text) ==
    LET U == Upper(text)
        NameEnd(i) == RunEnd(U, WordsAt(U, i, <<KW.with>>), WordSet)
        AsAt(p) == p > 1 /\ IsSpace(At(U, p - 1)) /\ LitAt(U, p, KW.as)
        AfterList(e) == LET o == SkipSpace(U, e) IN
                        IF At(U, o) = "(" /\ Find(U, o, ")") <= Len(U) THEN Find(U, o, ")") + 1 ELSE 0
        Ok(i) == /\ WordsAt(U, i, <<KW.with>>) # 0
                 /\ NameEnd(i) > WordsAt(U, i, <<KW.with>>)
                 /\ \/ AfterList(NameEnd(i)) # 0 /\ AsAt(SkipSpace(U, AfterList(NameEnd(i))))
                                                 /\ SkipSpace(U, AfterList(NameEnd(i))) > AfterList(NameEnd(i))
                    \/ AsAt(SkipSpace(U, NameEnd(i))) /\ SkipSpace(U, NameEnd(i)) > NameEnd(i)
    IN  {SubSeq(text, WordsAt(U, i, <<KW.with>>), NameEnd(i) - 1) : i \in {j \in 1..Len(U) : Ok(j)}}

\* SQLParser._clean_identifier: strip, then remove brackets and quotes (the
\* backquote, which the pattern also removes, is in no text of the model)
CleanIdentifier(identifier) ==
    SelectSeq(Strip(identifier), LAMBDA c : c \notin {"[", "]", QUOTE, APOS})

\* sorted(): the order of str, character by character in code order
CodeOrder ==
    <<" ", "!", QUOTE, "#", "$", "%", "&", APOS, "(", ")", "*", "+", ",", "-", ".", "/",
      "0", "1", "2", "3", "4", "5", "6", "7", "8", "9", ":", ";", "<", "=", ">", "?", "@">>
    \o UpperSeq \o <<"[", "\\", "]", "^", "_">> \o LowerSeq \o <<"{", "|", "}", "~">>
Ord(c) == IF \E k \in 1..Len(CodeOrder) : CodeOrder[k] = c
          THEN CHOOSE k \in 1..Len(CodeOrder) : CodeOrder[k] = c ELSE 0
StrLess(a, b) ==
    \/ Len(a) < Len(b) /\ SubSeq(b, 1, Len(a)) = a
    \/ \E k \in 1..Len(a) : /\ k <= Len(b) /\ SubSeq(a, 1, k - 1) = SubSeq(b, 1, k - 1)
                            /\ Ord(a[k]) < Ord(b[k])
Sorted(S) == SortSeq(CHOOSE q \in [1..Cardinality(S) -> S] : \A x \in S : \E k \in 1..Cardinality(S) : q[k] = x,
                     StrLess)

\* the loops of extract_tables over patterns and matches, from pattern k
RECURSIVE TablesOf(_, _, _, _)
TablesOf(text, U, patterns, k) ==
    IF k > Len(patterns) THEN {}
    ELSE {CleanIdentifier(t) : t \in FindTables(text, U, 1, patterns[k])} \cup TablesOf(text, U, patterns, k + 1)
\* the end of extract_tables: the SELECT patterns when nothing was found
TablesOrFallback(query_text, U, query_type, tables) ==
    Sorted(IF tables = {} /\ query_type = KW.unknown /\ HasSub(U, KW.select)
           THEN TablesOf(query_text, U, table_patterns(KW.select), 1) ELSE tables)
TablesOfType(query_text, U, query_type) ==
    TablesOrFallback(query_text, U, query_type,
                     (IF StartsWith(U, KW.with \o <<" ">>) THEN CteNames(query_text) ELSE {})
                     \cup TablesOf(query_text, U, table_patterns(query_type), 1))
\* SQLParser.extract_tables
ExtractTables(query_text, query_type) == TablesOfType(query_text, Upper(query_text), query_type)

\* str.split(sep): the pieces of s between the occurrences of sep
RECURSIVE Split(_, _)
Split(s, sep) ==
    LET p == FindLit(s, 1, sep)
    IN  IF p > Len(s) THEN <<s>>
        ELSE <<SubSeq(s, 1, p - 1)>> \o Split(SubSeq(s, p + Len(sep), Len(s)), sep)
\* re.sub(r'\([^)]*\)', '', s)
RECURSIVE RemoveParenGroups(_)
RemoveParenGroups(s) ==
    LET o == IF Len(s) = 0 THEN 1 ELSE First(1, Len(s), LAMBDA j : s[j] = "(" /\ Find(s, j, ")") <= Len(s))
    IN  IF o > Len(s) THEN s
        ELSE SubSeq(s, 1, o - 1) \o RemoveParenGroups(SubSeq(s, Find(s, o, ")") + 1, Len(s)))
\* the loop of extract_columns that cuts the section at the commas of level 0
RECURSIVE SplitTopLevel(_)
SplitTopLevel(s) ==
    LET Level(j) == Cardinality({k \in 1..(j - 1) : s[k] = "("}) - Cardinality({k \in 1..(j - 1) : s[k] = ")"})
        p == IF Len(s) = 0 THEN 1 ELSE First(1, Len(s), LAMBDA j : s[j] = "," /\ Level(j) = 0)
    IN  IF p > Len(s) THEN <<s>>
        ELSE <<SubSeq(s, 1, p - 1)>> \o SplitTopLevel(SubSeq(s, p + 1, Len(s)))

\* SQLParser._extract_column_name
LastPart(parts) == CleanIdentifier(parts[Len(parts)])
ExtractColumnName(column_expr) ==
    LastPart(Split(IF HasSub(Upper(column_expr), Spaced(KW.as))
                   THEN Strip(Split(column_expr, Spaced(KW.as))[1]) ELSE column_expr, <<".">>))

\* column_patterns[query_type].search(query_text): where group(1) starts and
\* ends for a match at i, <<>> when there is none
\* \s+FROM from e
FromAfter(U, e) == IsSpace(At(U, e)) /\ LitAt(U, SkipSpace(U, e), KW.from)
\* SELECT\s+(.*?)\s+FROM at i; g: the position after SELECT\s+, e: the first \s+FROM from g
SelectList(U, i, g, e) ==
    IF ~(LitAt(U, i, KW.select) /\ g > i + 6) THEN <<>>
    ELSE IF g <= Len(U) /\ e <= Len(U) THEN <<g, e - 1>>
    ELSE IF g - 1 > i + 6 /\ LitAt(U, g, KW.from) THEN <<g, g - 1>>
    ELSE <<>>
SelectAt(U, i, g) == SelectList(U, i, g, First(g, Len(U), LAMBDA j : FromAfter(U, j)))
\* \(([^\)]*)\) with the parenthesis at o
ParenList(U, o) ==
    IF o <= Len(U) /\ Find(U, o, ")") <= Len(U) THEN <<o + 1, Find(U, o, ")") - 1>> ELSE <<>>
\* HEAD[^\(]*\(([^\)]*)\) at i: the head may give whitespace back to [^\(]*, so only its words count
ListAt(U, i, words) == IF WordsAt(U, i, words) # 0 THEN ParenList(U, Find(U, i, "(")) ELSE <<>>
\* SET\s+(.*?)(?:WHERE|$) with g the position after SET\s+
SetList(U, g) == IF g = 0 THEN <<>> ELSE <<g, FindLit(U, g, KW.where) - 1>>
SectionAt(U, i, query_type) ==
    CASE query_type = KW.select -> SelectAt(U, i, SkipSpace(U, i + 6))
      [] query_type = KW.insert -> ListAt(U, i, <<KW.insert, KW.into>>)
      [] query_type = KW.update -> SetList(U, WordsAt(U, i, <<KW.set>>))
      [] query_type = KW.create -> ListAt(U, i, <<KW.create, KW.table>>)
      [] OTHER -> <<>>
\* match.group(1) as <<section>>; <<>> for no match
SectionOf(query_text, m) == IF m = <<>> THEN <<>> ELSE <<SubSeq(query_text, m[1], m[2])>>
SectionOfUpper(query_text, U, query_type) ==
    SectionOf(query_text, Leftmost({<<j, SectionAt(U, j, query_type)>> : j \in 1..Len(U)}, <<>>))
ColumnSection(query_text, query_type) == SectionOfUpper(query_text, Upper(query_text), query_type)

\* the types that column_patterns has a pattern for
column_pattern_types == {KW.select, KW.insert, KW.update, KW.create}

\* col_def.strip().split(None, 1)[0]: the first word of the definition
FirstToken(col) == SubSeq(col, 1, First(1, Len(col), LAMBDA j : IsSpace(col[j])) - 1)
\* the column of one piece of the section, stripped
ColumnOf(col, query_type) ==
    CASE query_type = KW.select -> IF col = <<>> THEN <<>> ELSE ExtractColumnName(col)
      [] query_type = KW.insert -> CleanIdentifier(col)
      [] query_type = KW.update -> CleanIdentifier(Strip(Split(col, <<"=">>)[1]))
      [] OTHER -> CleanIdentifier(FirstToken(col))
ColumnsOf(section, query_type, pieces) ==
    Sorted(({ColumnOf(Strip(pieces[k]), query_type) : k \in 1..Len(pieces)}
            \cup (IF query_type = KW.select /\ HasSub(section, <<"*">>) THEN {<<"*">>} ELSE {}))
           \ {<<>>})
ColumnsOfSection(section, query_type) ==
    IF section = <<>> THEN <<>>
    ELSE ColumnsOf(section[1], query_type,
                   CASE query_type = KW.select -> SplitTopLevel(RemoveParenGroups(section[1]))
                     [] OTHER -> Split(section[1], <<",">>))
\* SQLParser.extract_columns
ExtractColumns(query_text, query_type) ==
    IF query_type \notin column_pattern_types THEN <<>>
    ELSE ColumnsOfSection(ColumnSection(query_text, query_type), query_type)

(***************************************************************************)
(* parsers/oracle_detector.py: OracleFeatureDetector                       *)
(***************************************************************************)
\* a phrase: words with \s+ between them, from i; the position after it, 0 when no match
RECURSIVE PhraseAt(_, _, _)
PhraseAt(U, i, words) ==
    IF ~LitAt(U, i, Head(words)) THEN 0
    ELSE IF Len(words) = 1 THEN i + Len(Head(words))
    ELSE IF ~IsSpace(At(U, i + Len(Head(words)))) THEN 0
    ELSE PhraseAt(U, SkipSpace(U, i + Len(Head(words))), Tail(words))
\* \bPHRASE\b, or \bPHRASE\s*\( when call
HasPhrase(U, words, call) ==
    \E i \in 1..Len(U) :
        /\ Boundary(U, i) /\ IsWord(U[i])
        /\ PhraseAt(U, i, words) # 0
        /\ IF call THEN At(U, SkipSpace(U, PhraseAt(U, i, words))) = "("
           ELSE ~IsWord(At(U, PhraseAt(U, i, words)))
\* oracle_patterns, by shape: the patterns \bWORDS\b and the patterns \bWORD\s*\(
oracle_phrases ==
    [connect_by |-> <<<<"C","O","N","N","E","C","T">>, <<"B","Y">>>>,
     start_with |-> <<<<"S","T","A","R","T">>, KW.with>>,
     pivot |-> <<<<"P","I","V","O","T">>>>,
     unpivot |-> <<<<"U","N","P","I","V","O","T">>>>,
     merge |-> <<KW.merge, KW.into>>,
     varchar2 |-> <<<<"V","A","R","C","H","A","R","2">>>>,
     rowid |-> <<<<"R","O","W","I","D">>>>,
     clob |-> <<<<"C","L","O","B">>>>,
     blob |-> <<<<"B","L","O","B">>>>,
     dual_table |-> <<KW.from, <<"D","U","A","L">>>>,
     flashback_scn |-> <<KW.as, <<"O","F">>, <<"S","C","N">>>>,
     flashback_timestamp |-> <<KW.as, <<"O","F">>, <<"T","I","M","E","S","T","A","M","P">>>>,
     alter_system |-> <<KW.alter, <<"S","Y","S","T","E","M">>>>]
oracle_calls ==
    [decode |-> <<"D","E","C","O","D","E">>, nvl |-> <<"N","V","L">>, nvl2 |-> <<"N","V","L","2">>,
     instr |-> <<"I","N","S","T","R">>,
     regexp_like |-> <<"R","E","G","E","X","P","_","L","I","K","E">>,
     to_date |-> <<"T","O","_","D","A","T","E">>,
     add_months |-> <<"A","D","D","_","M","O","N","T","H","S">>,
     months_between |-> <<"M","O","N","T","H","S","_","B","E","T","W","E","E","N">>,
     number |-> <<"N","U","M","B","E","R">>]
oracle_words ==
    [nextval |-> <<"N","E","X","T","V","A","L">>, currval |-> <<"C","U","R","R","V","A","L">>,
     over |-> <<"O","V","E","R">>, partition |-> <<"P","A","R","T","I","T","I","O","N">>, by |-> <<"B","Y">>,
     hints |-> <<<<"F","U","L","L">>, KW.index, <<"N","O","_","I","N","D","E","X">>,
                 <<"U","S","E","_","H","A","S","H">>, <<"O","R","D","E","R","E","D">>>>,
     system |-> <<<<"U","S","E","R","_">>, <<"A","L","L","_">>, <<"D","B","A","_">>, <<"V","$">>>>,
     sqlplus |-> <<KW.set, <<"S","H","O","W">>, <<"S","P","O","O","L">>, <<"D","E","S","C">>,
                   <<"D","E","S","C","R","I","B","E">>, KW.exec, KW.execute,
                   <<"W","H","E","N","E","V","E","R">>>>]

\* the names of oracle_patterns whose pattern is found in the text, in the order of the dict
FeaturesOfUpper(U) ==
    LET Seq1(name, found) == IF found THEN <<name>> ELSE <<>>
        Phrase(name) == Seq1(name, HasPhrase(U, oracle_phrases[name], FALSE))
        Call(name) == Seq1(name, HasPhrase(U, <<oracle_calls[name]>>, TRUE))
        \* \b\w+\.NEXTVAL\b
        Sequence(word) == \E i \in 2..Len(U) :
                            /\ U[i] = "." /\ IsWord(U[i - 1])
                            /\ LitAt(U, i + 1, word) /\ ~IsWord(At(U, i + 1 + Len(word)))
        \* /\*\+ ... : the positions after the opening of a hint
        HintStarts == {i + 3 : i \in {j \in 1..Len(U) : LitAt(U, j, <<"/", "*", "+">>)}}
    IN  IF Len(U) = 0 THEN <<>>
        ELSE Phrase("connect_by") \o Phrase("start_with") \o Phrase("pivot") \o Phrase("unpivot")
          \o Phrase("merge")
          \* (?:\s|=|\()\+\)
          \o Seq1("outer_join_operator",
                  \E i \in 2..Len(U) : LitAt(U, i, <<"+", ")">>) /\ U[i - 1] \in SpaceSet \cup {"=", "("})
          \* /\*\+.*?\*/
          \o Seq1("optimizer_hint", \E h \in HintStarts : FindLit(U, h, <<"*", "/">>) <= Len(U))
          \o Call("decode") \o Call("nvl") \o Call("nvl2") \o Call("instr") \o Call("regexp_like")
          \o Call("to_date") \o Call("add_months") \o Call("months_between")
          \o Seq1("sequence_nextval", Sequence(oracle_words.nextval))
          \o Seq1("sequence_currval", Sequence(oracle_words.currval))
          \o Phrase("varchar2") \o Call("number") \o Phrase("rowid") \o Phrase("clob") \o Phrase("blob")
          \* \bOVER\s*\(PARTITION\s+BY\b
          \o Seq1("analytic_function",
                  \E i \in 1..Len(U) :
                     /\ Boundary(U, i) /\ LitAt(U, i, oracle_words.over)
                     /\ At(U, SkipSpace(U, i + 4)) = "("
                     /\ PhraseAt(U, SkipSpace(U, i + 4) + 1, <<oracle_words.partition, oracle_words.by>>) # 0
                     /\ ~IsWord(At(U, PhraseAt(U, SkipSpace(U, i + 4) + 1, <<oracle_words.partition, oracle_words.by>>))))
          \* /\*\+\s*(?:FULL|INDEX|NO_INDEX|USE_HASH|ORDERED)\s*\(
          \o Seq1("table_hint",
                  \E h \in HintStarts : \E k \in 1..Len(oracle_words.hints) :
                     /\ LitAt(U, SkipSpace(U, h), oracle_words.hints[k])
                     /\ At(U, SkipSpace(U, SkipSpace(U, h) + Len(oracle_words.hints[k]))) = "(")
          \o Phrase("dual_table")
          \* \bFROM\s+(?:USER_|ALL_|DBA_|V\$)\w+\b
          \o Seq1("system_tables",
                  \E i \in 1..Len(U) : \E k \in 1..Len(oracle_words.system) :
                     /\ Boundary(U, i) /\ PhraseAt(U, i, <<KW.from, oracle_words.system[k]>>) # 0
                     /\ IsWord(At(U, PhraseAt(U, i, <<KW.from, oracle_words.system[k]>>))))
          \* \bTABLE\s*\(\s*\w+\s*\)
          \o Seq1("plsql_table",
                  \E i \in 1..Len(U) :
                     LET o == SkipSpace(U, i + 5)
                         w == SkipSpace(U, o + 1)
                     IN  /\ Boundary(U, i) /\ LitAt(U, i, KW.table) /\ At(U, o) = "("
                         /\ RunEnd(U, w, WordSet) > w /\ At(U, SkipSpace(U, RunEnd(U, w, WordSet))) = ")")
          \o Seq1("flashback_query", HasPhrase(U, oracle_phrases.flashback_scn, FALSE)
                                     \/ HasPhrase(U, oracle_phrases.flashback_timestamp, FALSE))
          \o Phrase("alter_system")
          \* ^\s*(?:SET|SHOW|SPOOL|DESC|DESCRIBE|EXEC|EXECUTE|WHENEVER)\b
          \o Seq1("sqlplus_command",
                  \E k \in 1..Len(oracle_words.sqlplus) :
                           /\ LitAt(U, SkipSpace(U, 1), oracle_words.sqlplus[k])
                           /\ ~IsWord(At(U, SkipSpace(U, 1) + Len(oracle_words.sqlplus[k]))))

\* summarize_oracle_features(query_text): the names of the features found
OracleFeatures(query_text) == FeaturesOfUpper(Upper(query_text))

\* a deviation from lines 254-258: the record is flagged and the features are
\* stored, the count is left as it was
ParseFeaturesUncounted(query, oracle_features) ==
    [query EXCEPT
       !.is_oracle_specific = IF oracle_features # <<>> THEN TRUE ELSE @,
       !.oracle_features = IF oracle_features # <<>> THEN oracle_features ELSE @,
       !.parsed = TRUE]
\* SQLParser.parse, on a record of the fields of SQLQuery: the end, with the
\* features the detector found
ParseFeatures(query, oracle_features) ==
    [query EXCEPT
       !.is_oracle_specific = IF oracle_features # <<>> THEN TRUE ELSE @,
       !.oracle_features = IF oracle_features # <<>> THEN oracle_features ELSE @,
       !.oracle_feature_count = IF oracle_features # <<>> THEN Len(oracle_features) ELSE @,
       !.parsed = TRUE]
\* a deviation from lines 246-250: the tables and columns found are added to
\* the lists of the record instead of replacing them
ParseTypedAccumulating(query, query_type) ==
    ParseFeatures([query EXCEPT
                     !.query_type = query_type,
                     !.tables = @ \o ExtractTables(query.query_text, query_type),
                     !.columns = IF query_type \in column_pattern_types
                                 THEN @ \o ExtractColumns(query.query_text, query_type) ELSE @],
                  OracleFeatures(query.query_text))
\* from the extraction of the tables, with the type of the query
ParseTyped(query, query_type) ==
    ParseFeatures([query EXCEPT
                     !.query_type = query_type,
                     !.tables = ExtractTables(query.query_text, query_type),
                     !.columns = IF query_type \in column_pattern_types
                                 THEN ExtractColumns(query.query_text, query_type) ELSE @],
                  OracleFeatures(query.query_text))
Parse(query) ==
    ParseTyped(query, IF query.query_type = <<>> \/ query.query_type = KW.unknown
                      THEN IdentifyQueryType(query.query_text) ELSE query.query_type)

(***************************************************************************)
(* models/sql_query.py and analyzers/sql_analyzer.py                       *)
(***************************************************************************)
\* SQLQuery.__init__: the fields the pipeline reads or writes (where_conditions
\* is not among them: no code sets it)
SQLQuery(query_text, source_file, language, query_type) ==
    [query_text |-> query_text, source_file |-> source_file, language |-> language,
     query_type |-> query_type, tables |-> <<>>, columns |-> <<>>, parsed |-> FALSE,
     complexity_score |-> 0, is_oracle_specific |-> FALSE, oracle_features |-> <<>>,
     oracle_feature_count |-> 0, join_types |-> <<>>, has_joins |-> FALSE, join_count |-> 0,
     complexity |-> 0]

Range(q) == {q[k] : k \in 1..Len(q)}
Min(a, b) == IF a < b THEN a ELSE b
\* the two-word join phrases of the analyzer
JoinPhrase(kind) == kind \o <<" ">> \o KW.join
\* the caps and increments of determine_query_complexity
complexity_terms ==
    [base |-> 1, max_tables |-> 3, max_conditions |-> 2, max_oracle |-> 3, max_joins |-> 3,
     outer_join |-> 1, full_join |-> 2, cross_join |-> 2, group_by |-> 1, having |-> 1,
     set_operation |-> 2, case |-> 1, subquery |-> 2]

\* a deviation from lines 124-136: every JOIN is counted, without the cap
JoinComplexityUncapped(query_text) ==
    LET In(w) == HasSub(query_text, Spaced(w)) IN
    IF ~In(KW.join) THEN 0
    ELSE Count(query_text, Spaced(KW.join))
         + (IF In(JoinPhrase(KW.outer)) \/ In(KW.left_join) \/ In(KW.right_join)
            THEN complexity_terms.outer_join ELSE 0)
         + (IF In(KW.full_join) \/ In(JoinPhrase(KW.full \o <<" ">> \o KW.outer))
            THEN complexity_terms.full_join ELSE 0)
         + (IF In(KW.cross_join) THEN complexity_terms.cross_join ELSE 0)
\* a deviation from lines 129-136: the tests of the join kinds chained by
\* elif, so that only the first kind found is counted
JoinComplexityFirstKind(query_text) ==
    LET In(w) == HasSub(query_text, Spaced(w)) IN
    IF ~In(KW.join) THEN 0
    ELSE Min(complexity_terms.max_joins, Count(query_text, Spaced(KW.join)))
         + (IF In(JoinPhrase(KW.outer)) \/ In(KW.left_join) \/ In(KW.right_join)
            THEN complexity_terms.outer_join
            ELSE IF In(KW.full_join) \/ In(JoinPhrase(KW.full \o <<" ">> \o KW.outer))
            THEN complexity_terms.full_join
            ELSE IF In(KW.cross_join) THEN complexity_terms.cross_join ELSE 0)
\* determine_query_complexity, lines 124-136: the JOIN operations of the upper-cased text
JoinComplexity(query_text) ==
    LET In(w) == HasSub(query_text, Spaced(w)) IN
    IF ~In(KW.join) THEN 0
    ELSE Min(complexity_terms.max_joins, Count(query_text, Spaced(KW.join)))
         + (IF In(JoinPhrase(KW.outer)) \/ In(KW.left_join) \/ In(KW.right_join)
            THEN complexity_terms.outer_join ELSE 0)
         + (IF In(KW.full_join) \/ In(JoinPhrase(KW.full \o <<" ">> \o KW.outer))
            THEN complexity_terms.full_join ELSE 0)
         + (IF In(KW.cross_join) THEN complexity_terms.cross_join ELSE 0)

\* a deviation from lines 107-110: every table after the first is counted,
\* without the cap
ComplexityOfEveryTable(query, query_text) ==
    LET In(w) == HasSub(query_text, Spaced(w))
        table_count == Len(query.tables)
    IN  (IF query.query_type \in {KW.select, KW.with} THEN complexity_terms.base ELSE 0)
        + (IF table_count > 1 THEN table_count - 1 ELSE 0)
        + (IF "where_conditions" \in DOMAIN query /\ query.where_conditions # <<>>
           THEN Min(complexity_terms.max_conditions, Len(query.where_conditions) \div 2) ELSE 0)
        + (IF query.is_oracle_specific THEN Min(complexity_terms.max_oracle, query.oracle_feature_count) ELSE 0)
        + JoinComplexity(query_text)
        + (IF In(KW.group_by) THEN complexity_terms.group_by ELSE 0)
        + (IF In(KW.having) THEN complexity_terms.having ELSE 0)
        + (IF In(KW.union) \/ In(KW.intersect) \/ In(KW.except) THEN complexity_terms.set_operation ELSE 0)
        + (IF In(KW.case) THEN complexity_terms.case ELSE 0)
        + (IF \/ HasSub(query_text, KW.subquery) \/ HasSub(query_text, KW.sub_query)
              \/ Count(query_text, KW.select \o <<" ">>) > 1
           THEN complexity_terms.subquery ELSE 0)
\* SQLAnalyzer.determine_query_complexity; query_text: query.query_text.upper()
ComplexityOf(query, query_text) ==
    LET In(w) == HasSub(query_text, Spaced(w))
        table_count == Len(query.tables)
    IN  (IF query.query_type \in {KW.select, KW.with} THEN complexity_terms.base ELSE 0)
        + (IF table_count > 1 THEN Min(complexity_terms.max_tables, table_count - 1) ELSE 0)
        + (IF "where_conditions" \in DOMAIN query /\ query.where_conditions # <<>>
           THEN Min(complexity_terms.max_conditions, Len(query.where_conditions) \div 2) ELSE 0)
        + (IF query.is_oracle_specific THEN Min(complexity_terms.max_oracle, query.oracle_feature_count) ELSE 0)
        + JoinComplexity(query_text)
        + (IF In(KW.group_by) THEN complexity_terms.group_by ELSE 0)
        + (IF In(KW.having) THEN complexity_terms.having ELSE 0)
        + (IF In(KW.union) \/ In(KW.intersect) \/ In(KW.except) THEN complexity_terms.set_operation ELSE 0)
        + (IF In(KW.case) THEN complexity_terms.case ELSE 0)
        + (IF \/ HasSub(query_text, KW.subquery) \/ HasSub(query_text, KW.sub_query)
              \/ Count(query_text, KW.select \o <<" ">>) > 1
           THEN complexity_terms.subquery ELSE 0)
DetermineQueryComplexity(query) == ComplexityOf(query, Upper(query.query_text))

\* SQLAnalyzer.analyze_queries, for one query of the list; query_text: query.query_text.upper()
\* a deviation from lines 175-177: join_count taken from " INNER JOIN ", so
\* that joins written without INNER are not counted
AnalyzeUpperCountingInner(query, query_text) ==
    LET In(w) == HasSub(query_text, Spaced(w))
    IN  [query EXCEPT
           !.complexity = DetermineQueryComplexity(query),
           !.has_joins = In(KW.join),
           !.join_count = Count(query_text, Spaced(KW.inner_join)),
           !.join_types =
              [inner_join |-> In(KW.inner_join) \/ (In(KW.join) /\ ~In(KW.left) /\ ~In(KW.right)
                                                    /\ ~In(KW.full) /\ ~In(KW.cross)),
               left_join |-> In(KW.left_join) \/ In(JoinPhrase(KW.left \o <<" ">> \o KW.outer)),
               right_join |-> In(KW.right_join) \/ In(JoinPhrase(KW.right \o <<" ">> \o KW.outer)),
               full_join |-> In(KW.full_join) \/ In(JoinPhrase(KW.full \o <<" ">> \o KW.outer)),
               cross_join |-> In(KW.cross_join),
               natural_join |-> In(JoinPhrase(KW.natural)),
               self_join |-> FALSE,
               multiple_joins |-> Count(query_text, Spaced(KW.join)) > 1]]
AnalyzeUpper(query, query_text) ==
    LET In(w) == HasSub(query_text, Spaced(w))
    IN  [query EXCEPT
           !.complexity = DetermineQueryComplexity(query),
           !.has_joins = In(KW.join),
           !.join_count = Count(query_text, Spaced(KW.join)),
           !.join_types =
              [inner_join |-> In(KW.inner_join) \/ (In(KW.join) /\ ~In(KW.left) /\ ~In(KW.right)
                                                    /\ ~In(KW.full) /\ ~In(KW.cross)),
               left_join |-> In(KW.left_join) \/ In(JoinPhrase(KW.left \o <<" ">> \o KW.outer)),
               right_join |-> In(KW.right_join) \/ In(JoinPhrase(KW.right \o <<" ">> \o KW.outer)),
               full_join |-> In(KW.full_join) \/ In(JoinPhrase(KW.full \o <<" ">> \o KW.outer)),
               cross_join |-> In(KW.cross_join),
               natural_join |-> In(JoinPhrase(KW.natural)),
               self_join |-> FALSE,
               multiple_joins |-> Count(query_text, Spaced(KW.join)) > 1]]
AnalyzeQuery(query) == AnalyzeUpper(query, Upper(query.query_text))
AnalyzeQueries(queries) == [k \in 1..Len(queries) |-> AnalyzeQuery(queries[k])]
\* str.count(sub) of Python: the empty string is counted len + 1 times
StrCount(s, sub) == IF sub = <<>> THEN Len(s) + 1 ELSE Count(s, sub)
\* SQLAnalyzer.detect_join_types, lines 54-93; query_text: query.query_text.upper()
DetectJoinTypes(query) ==
    LET query_text == Upper(query.query_text)
        In(w) == HasSub(query_text, Spaced(w))
        join_count == Count(query_text, Spaced(KW.join))
        join_types ==
            [inner_join |-> In(KW.join) \/ In(KW.inner_join),
             left_join |-> In(KW.left_join) \/ In(JoinPhrase(KW.left \o <<" ">> \o KW.outer)),
             right_join |-> In(KW.right_join) \/ In(JoinPhrase(KW.right \o <<" ">> \o KW.outer)),
             full_join |-> In(KW.full_join) \/ In(JoinPhrase(KW.full \o <<" ">> \o KW.outer)),
             cross_join |-> In(KW.cross_join),
             natural_join |-> In(JoinPhrase(KW.natural)),
             self_join |-> FALSE,
             multiple_joins |-> join_count > 1]
    IN  [join_types EXCEPT
           !.self_join = /\ join_count > 0 /\ query.tables # <<>>
                         /\ \E k \in 1..Len(query.tables) :
                               /\ StrCount(query_text, Upper(query.tables[k])) > 1
                               /\ \E flag \in DOMAIN join_types : join_types[flag]]

RECURSIVE Sum(_)
Sum(numbers) == IF numbers = <<>> THEN 0 ELSE Head(numbers) + Sum(Tail(numbers))
\* SQLAnalyzer.get_query_statistics; avg_complexity is sum / count, kept as the two numbers
GetQueryStatistics(queries) ==
    LET TypeOf(q) == IF q.query_type = <<>> THEN KW.unknown ELSE q.query_type
        idx == 1..Len(queries)
    IN  [total_queries |-> Len(queries),
         query_types |-> [t \in {TypeOf(queries[k]) : k \in idx} |->
                             Cardinality({k \in idx : TypeOf(queries[k]) = t})],
         tables_accessed |-> [t \in UNION {Range(queries[k].tables) : k \in idx} |->
                                 Sum([k \in idx |-> Cardinality({j \in 1..Len(queries[k].tables) :
                                                                     queries[k].tables[j] = t})])],
         avg_complexity |-> [sum |-> Sum([k \in idx |-> queries[k].complexity_score]),
                             count |-> Len(queries)]]

(***************************************************************************)
(* test_validators.py: every case is given to both validators.  The state  *)
(* is the text under test, whether the tokenizer could be imported, and    *)
(* what each validator has answered for the text so far (<<>>: not asked). *)
(***************************************************************************)
VARIABLES query_text, sqlparse_available, basic_verdict, sqlparse_verdict, basic_type, sqlparse_type
validator_vars == <<query_text, basic_verdict, sqlparse_verdict, basic_type, sqlparse_type>>

\* main.py, from the scan to the summary report: the files discovered, the
\* scanner's validator strategy, the position of main, the scan loop's counter,
\* what extract_sql_from_file did for each file, the lists main builds, the
\* statistics of the report, and the number of exceptions raised so far
VARIABLES java_files, use_sqlparse, pc, processed, scan_log, sql_queries, parsed_queries,
          next_query, analyzed_queries, stats, faults
pipeline_vars == <<java_files, use_sqlparse, pc, processed, scan_log, sql_queries, parsed_queries,
                   next_query, analyzed_queries, stats, faults>>

\* a caller of determine_query_complexity: the record it passes and the score returned
VARIABLES ingredients, record, score
complexity_vars == <<ingredients, record, score>>

\* a caller of the parser, of the detector and of get_query_type: the statement
\* text; the record made of it, as it was emitted and after each application
\* of parse and analyze_queries; and what a function called with the text
\* itself answered (<<>>: nothing was called)
VARIABLES statement, sql_query, answer
parser_vars == <<statement, sql_query, answer>>

\* a caller of scan: the lists the calls of scan() on one scanner returned
VARIABLES scan_results

vars == <<validator_vars, sqlparse_available, pipeline_vars, complexity_vars, parser_vars, scan_results>>

\* test_cases, the rows expected True
valid_sql_cases ==
    << <<"S","E","L","E","C","T"," ","*"," ","F","R","O","M"," ","c","u","s","t","o","m","e","r","s"," ","W","H","E","R","E"," ","a","g","e"," ",">"," ","1","8">>,
       <<"I","N","S","E","R","T"," ","I","N","T","O"," ","p","r","o","d","u","c","t","s"," ","(","n","a","m","e",","," ","p","r","i","c","e",")"," ","V","A","L","U","E","S"," ","(","'","W","i","d","g","e","t","'",","," ","1","9",".","9","9",")">>,
       <<"U","P","D","A","T","E"," ","u","s","e","r","s"," ","S","E","T"," ","a","c","t","i","v","e"," ","="," ","1"," ","W","H","E","R","E"," ","l","a","s","t","_","l","o","g","i","n"," ",">"," ","'","2","0","2","3","-","0","1","-","0","1","'">>,
       <<"D","E","L","E","T","E"," ","F","R","O","M"," ","o","r","d","e","r","s"," ","W","H","E","R","E"," ","s","t","a","t","u","s"," ","="," ","'","c","a","n","c","e","l","l","e","d","'">>,
       <<"C","R","E","A","T","E"," ","T","A","B","L","E"," ","e","m","p","l","o","y","e","e","s"," ","(","i","d"," ","I","N","T",","," ","n","a","m","e"," ","V","A","R","C","H","A","R","(","1","0","0",")",")">>,
       <<"A","L","T","E","R"," ","T","A","B","L","E"," ","p","r","o","d","u","c","t","s"," ","A","D","D"," ","C","O","L","U","M","N"," ","d","e","s","c","r","i","p","t","i","o","n"," ","T","E","X","T">>,
       <<"D","R","O","P"," ","T","A","B","L","E"," ","t","e","m","p","_","d","a","t","a">>,
       <<"M","E","R","G","E"," ","I","N","T","O"," ","c","u","s","t","o","m","e","r","s"," ","U","S","I","N","G"," ","n","e","w","_","d","a","t","a"," ","O","N"," ","(","c","u","s","t","o","m","e","r","s",".","i","d"," ","="," ","n","e","w","_","d","a","t","a",".","i","d",")">>,
       <<"W","I","T","H"," ","c","t","e"," ","A","S"," ","(","S","E","L","E","C","T"," ","*"," ","F","R","O","M"," ","o","r","d","e","r","s",")"," ","S","E","L","E","C","T"," ","*"," ","F","R","O","M"," ","c","t","e">>,
       <<"S","E","L","E","C","T"," ","o",".","i","d",","," ","c",".","n","a","m","e"," ","F","R","O","M"," ","o","r","d","e","r","s"," ","o"," ","J","O","I","N"," ","c","u","s","t","o","m","e","r","s"," ","c"," ","O","N"," ","o",".","c","u","s","t","o","m","e","r","_","i","d"," ","="," ","c",".","i","d">> >>

\* test_cases, the rows expected False
false_positive_cases ==
    << <<"c","r","e","a","t","e","P","r","o","d","u","c","t","D","i","s","c","o","u","n","t","P","r","i","c","e","(","p","r","o","d","u","c","t",","," ","p","r","i","c","e",")">>,
       <<"s","e","l","e","c","t","A","l","l","I","t","e","m","s","(",")">>,
       <<"u","p","d","a","t","e","U","s","e","r","P","r","o","f","i","l","e","(","u","s","e","r",")">>,
       <<"d","e","l","e","t","e","F","r","o","m","C","a","c","h","e","(","k","e","y",")">>,
       <<"c","r","e","a","t","e","T","a","b","l","e",".","s","e","t","H","e","a","d","e","r","s","(","[","'","N","a","m","e","'",","," ","'","E","m","a","i","l","'","]",")">>,
       <<"S","e","l","e","c","t"," ","a","n"," ","o","p","t","i","o","n"," ","f","r","o","m"," ","t","h","e"," ","d","r","o","p","d","o","w","n">>,
       <<"U","p","d","a","t","e"," ","y","o","u","r"," ","p","r","o","f","i","l","e"," ","i","n","f","o","r","m","a","t","i","o","n">>,
       <<"s","e","l","e","c","t",".","o","p","t","i","o","n","s"," ","="," ","[","'","O","p","t","i","o","n"," ","1","'",","," ","'","O","p","t","i","o","n"," ","2","'","]">>,
       <<"t","h","i","s",".","t","a","b","l","e",".","i","n","s","e","r","t","(","r","o","w",")">>,
       <<"<","!","-","-"," ","c","r","e","a","t","e"," ","t","a","b","l","e"," ","l","a","y","o","u","t"," ","f","o","r"," ","r","e","s","p","o","n","s","i","v","e"," ","d","e","s","i","g","n"," ","-","-",">">> >>

\* further texts of the false-positive shapes: method calls and dotted access
MoreFalsePositiveShapes ==
    << <<"c","r","e","a","t","e","W","i","d","g","e","t","(","x",","," ","y",")">>,
       <<"s","e","l","e","c","t","A","l","l","U","s","e","r","s","(",")">>,
       <<"s","e","l","e","c","t",".","v","a","l","u","e"," ","="," ","1">> >>

\* further well-formed DML statements of at least MinSqlLength characters
MoreWellFormedDml ==
    << <<"S","E","L","E","C","T"," ","\"","i","d","\""," ","F","R","O","M"," ","\"","u","s","e","r","s","\"">>,
       <<"s","e","l","e","c","t"," ","n","a","m","e"," ","f","r","o","m"," ","e","m","p","l","o","y","e","e","s">>,
       <<"S","E","L","E","C","T"," ","n","a","m","e"," ","F","R","O","M"," ","e","m","p","l","o","y","e","e","s"," ","W","H","E","R","E"," ","d","e","p","t"," ","="," ","'","I","T","'">>,
       <<"I","N","S","E","R","T"," ","I","N","T","O"," ","t"," ","V","A","L","U","E","S"," ","(","1",")">>,
       <<"U","P","D","A","T","E"," ","t"," ","S","E","T"," ","a"," ","="," ","1">>,
       <<"D","E","L","E","T","E"," ","F","R","O","M"," ","t","1">> >>

\* texts that are neither well-formed statements nor false-positive shapes
OtherTexts ==
    << <<"D","R","O","P"," ","e","v","e","r","y","t","h","i","n","g"," ","n","o","w">>,
       <<"C","O","M","M","I","T"," ","t","h","e"," ","t","r","a","n","s","a","c","t","i","o","n">>,
       <<"S","E","L","E","C","T"," ","1"," ","+"," ","1"," ","+"," ","1">>,
       <<"a"," ","J","O","I","N"," ","b"," ","W","H","E","R","E"," ","c">>,
       <<"x"," ","\"","S","e","l","e","c","t"," ","a"," ","b","u","t","t","o","n","\""," ","y">>,
       <<"t","h","e"," ","g","e","t","U","s","e","r","S","e","l","e","c","t","L","i","s","t"," ","v","a","l","u","e">>,
       <<"S","E","L","E","C","T"," ","i","d"," ","F","R","O","M"," ","t","a","b","l","e",".","u","s","e","r","s">>,
       <<"S","E","L","E","C","T"," ","n","o","w","(",")">>,
       <<"s","h","o","r","t">>,
       <<"I","N","S","E","R","T"," ","p","r","o","d","u","c","t","s"," ","V","A","L","U","E","S">>,
       <<"C","R","E","A","T","E"," ","S","O","M","E","T","H","I","N","G"," ","E","L","S","E">> >>

\* texts shorter than MinSqlLength: the empty text, words, a statement, and
\* method calls that start with a SQL verb
ShortTexts ==
    << <<>>,
       <<"S","E","L","E","C","T"," ","1">>,
       <<"D","R","O","P"," ","t">>,
       <<"d","r","o","p","X","(",")">>,
       <<"s","e","l","e","c","t","X","(",")">> >>

\* the texts of the three cataloged false-positive shapes: the test rows but the HTML comment
FalsePositiveShapes ==
    {false_positive_cases[k] : k \in 1..(Len(false_positive_cases) - 1)} \cup Range(MoreFalsePositiveShapes)
WellFormedStatements == Range(valid_sql_cases) \cup Range(MoreWellFormedDml)
\* texts for the command checks, the clause and marker counts, and the
\* false-positive filter on a quoted value
StructureTexts ==
    << <<"D","R","O","P"," ","T","A","B","L","E"," ","\"","o","r","d","e","r","s","\"">>,
       <<"D","R","O","P"," ","T","A","B","L","E"," ","o","r","d","e","r","s">>,
       <<"D","R","O","P"," ","t","h","i","s"," ","S","E","Q","U","E","N","C","E">>,
       <<"T","R","U","N","C","A","T","E"," ","e","v","e","r","y","t","h","i","n","g">>,
       <<"t","o","m"," ","F","R","O","M"," ","h","e","r","e"," ","F","R","O","M"," ","t","h","e","r","e">>,
       <<"o","n","e"," ","F","R","O","M"," ","o","n","l","y"," ","h","e","r","e">>,
       <<"x"," ","A","N","D"," ","y"," ","A","N","D"," ","z"," ","A","N","D"," ","w">>,
       <<"S","E","L","E","C","T"," ","i","d"," ","F","R","O","M"," ","t"," ","W","H","E","R","E"," ","n","o","t","e"," ","="," ","'","c","a","l","l"," ","s","e","l","e","c","t","A","l","l","(",")"," ","n","o","w","'">>,
       <<"S","E","L","E","C","T"," ","i","d"," ","F","R","O","M"," ","t"," ","W","H","E","R","E"," ","n","o","t","e"," ","="," ","'","n","o"," ","c","a","l","l"," ","h","e","r","e","'">>,
       <<"U","P","D","A","T","E"," ","t"," ","S","E","T"," ","l","a","b","e","l"," ","="," ","\"","S","e","l","e","c","t"," ","a"," ","b","u","t","t","o","n","\"">> >>

InputTexts ==
    FalsePositiveShapes \cup WellFormedStatements \cup Range(false_positive_cases)
    \cup Range(OtherTexts) \cup Range(ShortTexts) \cup Range(StructureTexts)

\* main has not been started
PipelineIdle ==
    /\ java_files = <<>> /\ use_sqlparse = FALSE /\ pc = "idle" /\ processed = 0
    /\ scan_log = <<>> /\ sql_queries = <<>> /\ parsed_queries = <<>> /\ next_query = 1
    /\ analyzed_queries = <<>> /\ stats = <<>> /\ faults = 0
\* the parser has no caller, and scan no second caller
ParserIdle == statement = <<>> /\ sql_query = <<>> /\ answer = <<>> /\ scan_results = <<>>
\* determine_query_complexity has no caller
ComplexityIdle == ingredients = <<>> /\ record = <<>> /\ score = <<>>
ValidatorIdle ==
    /\ query_text = <<>>
    /\ basic_verdict = <<>> /\ sqlparse_verdict = <<>>
    /\ basic_type = <<>> /\ sqlparse_type = <<>>

ValidatorInit ==
    /\ query_text \in InputTexts
    /\ sqlparse_available \in BOOLEAN
    /\ basic_verdict = <<>> /\ sqlparse_verdict = <<>>
    /\ basic_type = <<>> /\ sqlparse_type = <<>>
    /\ PipelineIdle /\ ComplexityIdle /\ ParserIdle

\* basic_validator.is_valid_sql(text)
BasicIsValidSql ==
    /\ basic_verdict = <<>>
    /\ basic_verdict' = <<SQLValidator_is_valid_sql(query_text)>>
    /\ UNCHANGED <<query_text, sqlparse_available, sqlparse_verdict, basic_type, sqlparse_type, pipeline_vars, complexity_vars, parser_vars, scan_results>>
\* sqlparse_validator.is_valid_sql(text)
SqlParseIsValidSql ==
    /\ sqlparse_verdict = <<>>
    /\ sqlparse_verdict' = <<SqlParseValidator_is_valid_sql(query_text, sqlparse_available)>>
    /\ UNCHANGED <<query_text, sqlparse_available, basic_verdict, basic_type, sqlparse_type, pipeline_vars, complexity_vars, parser_vars, scan_results>>
\* basic_validator.get_query_type(text)
BasicGetQueryType ==
    /\ basic_type = <<>>
    /\ basic_type' = <<SQLValidator_get_query_type(query_text)>>
    /\ UNCHANGED <<query_text, sqlparse_available, basic_verdict, sqlparse_verdict, sqlparse_type, pipeline_vars, complexity_vars, parser_vars, scan_results>>
\* sqlparse_validator.get_query_type(text)
SqlParseGetQueryType ==
    /\ sqlparse_type = <<>>
    /\ sqlparse_type' = <<SqlParseValidator_get_query_type(query_text, sqlparse_available)>>
    /\ UNCHANGED <<query_text, sqlparse_available, basic_verdict, sqlparse_verdict, basic_type, pipeline_vars, complexity_vars, parser_vars, scan_results>>
\* the loop of test_validators goes on to the next case
NextCase ==
    /\ basic_verdict # <<>> /\ sqlparse_verdict # <<>>
    /\ query_text' \in InputTexts
    /\ basic_verdict' = <<>> /\ sqlparse_verdict' = <<>>
    /\ basic_type' = <<>> /\ sqlparse_type' = <<>>
    /\ UNCHANGED <<sqlparse_available, pipeline_vars, complexity_vars, parser_vars, scan_results>>

ValidatorNext ==
    \/ BasicIsValidSql
    \/ SqlParseIsValidSql
    \/ BasicGetQueryType
    \/ SqlParseGetQueryType
    \/ NextCase

ValidatorSpec == ValidatorInit /\ [][ValidatorNext]_vars

(***************************************************************************)
(* scanner/java_scanner.py and main.py: the run from the scan to the       *)
(* summary report.  An exception is an input of the step that raises it.   *)
(***************************************************************************)
MaxFiles == 2
MaxFaults == 1

\* the source files a project directory can hold: the path, whether open()
\* succeeds, the text, and the number of SQL string literals in the text
source_files ==
  <<
     [path |-> "Scenario.java", readable |-> TRUE, literals |-> 1,
      content |-> <<"S","t","r","i","n","g"," ","s","q","l"," ","="," ","\"","S","E","L","E","C","T"," ","n","a","m","e"," ","F","R","O","M"," ","e","m","p","l","o","y","e","e","s"," ","W","H","E","R","E"," ","d","e","p","t"," ","="," ","'","I","T","'","\"",";","\n">>],
     [path |-> "Report.java", readable |-> TRUE, literals |-> 1,
      content |-> <<"S","t","r","i","n","g"," ","q"," ","="," ","\"","W","I","T","H"," ","c","t","e"," ","A","S"," ","(","S","E","L","E","C","T"," ","*"," ","F","R","O","M"," ","o","r","d","e","r","s",")"," ","S","E","L","E","C","T"," ","*"," ","F","R","O","M"," ","c","t","e","\"",";","\n">>],
     [path |-> "Dao.java", readable |-> TRUE, literals |-> 2,
      content |-> <<"r","s"," ","="," ","s",".","e","x","e","c","u","t","e","Q","u","e","r","y","(","\"","S","E","L","E","C","T"," ","e",".","n","a","m","e"," ","F","R","O","M"," ","e","m","p"," ","e"," ","L","E","F","T"," ","J","O","I","N"," ","d","e","p","t"," ","d"," ","O","N"," ","e",".","d"," ","="," ","d",".","i","d","\"",")",";"," ","n"," ","="," ","s",".","e","x","e","c","u","t","e","U","p","d","a","t","e","(","\"","D","E","L","E","T","E"," ","F","R","O","M"," ","t","1","\"",")",";","\n">>],
     [path |-> "Util.java", readable |-> TRUE, literals |-> 0,
      content |-> <<"i","n","t"," ","x"," ","="," ","s","e","l","e","c","t","A","l","l","I","t","e","m","s","(",")",";","\n">>],
     [path |-> "Broken.java", readable |-> FALSE, literals |-> 1,
      content |-> <<"S","t","r","i","n","g"," ","s","q","l"," ","="," ","\"","D","E","L","E","T","E"," ","F","R","O","M"," ","t","1","\"",";","\n">>] >>

\* the subsets of 1..n listed in increasing order, at most MaxFiles long
RECURSIVE Listings(_)
Listings(n) ==
    IF n = 0 THEN {<<>>}
    ELSE Listings(n - 1) \cup {Append(l, n) : l \in {m \in Listings(n - 1) : Len(m) < MaxFiles}}
\* find_java_files: the files of the project directory
FindJavaFiles == Listings(Len(source_files))

\* extract_sql_from_file, the loops over sql_patterns and matches: the cleaned
\* matches of each source file, in the order they are visited
RECURSIVE CleanMatchesFrom(_)
CleanAll(matches) == [k \in 1..Len(matches) |-> CleanQuery(matches[k])]
CleanMatchesFrom(f) ==
    IF f > Len(source_files) THEN <<>>
    ELSE <<CleanAll(AllMatches(source_files[f].content))>> \o CleanMatchesFrom(f + 1)
clean_matches == CleanMatchesFrom(1)

\* extract_sql_from_file, the body of the loop over the matches: the queries of
\* the matches that were visited, from match k
RECURSIVE QueriesFrom(_, _, _, _, _)
QueriesFrom(path, visited, k, use, available) ==
    IF k > Len(visited) THEN <<>>
    ELSE (IF IsValidSqlQuery(visited[k], use, available)
          THEN <<SQLQuery(visited[k], path, "Java", DetectQueryType(visited[k], use, available))>>
          ELSE <<>>)
         \o QueriesFrom(path, visited, k + 1, use, available)
\* the matches handled before match raised_at raises; 0: none raises
Visited(matches, raised_at) ==
    IF raised_at = 0 THEN matches ELSE SubSeq(matches, 1, raised_at - 1)
\* JavaScanner.extract_sql_from_file; when open or the handling of a match raises,
\* the except clause logs it and the queries collected so far are returned
ExtractSqlFromFile(file_path, strategy, raised_at) ==
    IF ~source_files[file_path].readable THEN <<>>
    ELSE QueriesFrom(source_files[file_path].path, Visited(clean_matches[file_path], raised_at), 1,
                     strategy[1], strategy[2])

\* a deviation from the parse loop: the record is kept when parse raised
AppendUnparsed(queries, query, raised) ==
    Append(queries, IF raised THEN query ELSE Parse(query))
\* main.py, the parse loop: a record is appended only when parse returned it
AppendParsed(queries, query, raised) ==
    IF raised THEN queries ELSE Append(queries, Parse(query))

PipelineInit ==
    /\ java_files \in FindJavaFiles
    /\ use_sqlparse \in BOOLEAN
    /\ sqlparse_available \in BOOLEAN
    /\ pc = "scan" /\ processed = 0 /\ scan_log = <<>>
    /\ sql_queries = <<>> /\ parsed_queries = <<>> /\ next_query = 1
    /\ analyzed_queries = <<>> /\ stats = <<>> /\ faults = 0
    /\ ValidatorIdle /\ ComplexityIdle /\ ParserIdle

\* the number of matches of the patterns in each source file
match_count == [f \in 1..Len(source_files) |-> Len(clean_matches[f])]

\* a deviation from scan: the error of a file is not caught, it ends the scan
\* and the caller gets no records
ScanFileAborting ==
    /\ pc = "scan" /\ processed < Len(java_files)
    /\ \E raised_at \in 0..match_count[java_files[processed + 1]] :
          /\ raised_at > 0 => (source_files[java_files[processed + 1]].readable /\ faults < MaxFaults)
          /\ sql_queries' = IF raised_at > 0 \/ ~source_files[java_files[processed + 1]].readable
                            THEN <<>>
                            ELSE sql_queries \o ExtractSqlFromFile(java_files[processed + 1],
                                                                   <<use_sqlparse, sqlparse_available>>, raised_at)
          /\ scan_log' = Append(scan_log, [file_path |-> java_files[processed + 1], raised_at |-> raised_at,
                                           returned |-> Len(sql_queries') - Len(sql_queries)])
          /\ faults' = IF raised_at > 0 THEN faults + 1 ELSE faults
          /\ pc' = IF raised_at > 0 \/ ~source_files[java_files[processed + 1]].readable
                   THEN "done" ELSE pc
    /\ processed' = processed + 1
    /\ UNCHANGED <<java_files, use_sqlparse, sqlparse_available, parsed_queries, next_query,
                   analyzed_queries, stats, validator_vars, complexity_vars, parser_vars, scan_results>>

\* JavaScanner.scan, one turn of the loop over java_files
ScanFile ==
    /\ pc = "scan" /\ processed < Len(java_files)
    /\ \E raised_at \in 0..match_count[java_files[processed + 1]] :
          /\ raised_at > 0 => (source_files[java_files[processed + 1]].readable /\ faults < MaxFaults)
          /\ sql_queries' = sql_queries \o ExtractSqlFromFile(java_files[processed + 1],
                                                              <<use_sqlparse, sqlparse_available>>, raised_at)
          /\ scan_log' = Append(scan_log, [file_path |-> java_files[processed + 1], raised_at |-> raised_at,
                                           returned |-> Len(sql_queries') - Len(sql_queries)])
          /\ faults' = IF raised_at > 0 THEN faults + 1 ELSE faults
    /\ processed' = processed + 1
    /\ UNCHANGED <<java_files, use_sqlparse, sqlparse_available, pc, parsed_queries, next_query,
                   analyzed_queries, stats, validator_vars, complexity_vars, parser_vars, scan_results>>

\* JavaScanner.scan returns; main returns when there are no queries
ScanReturn ==
    /\ pc = "scan" /\ processed = Len(java_files)
    /\ pc' = IF sql_queries = <<>> THEN "done" ELSE "parse"
    /\ UNCHANGED <<java_files, use_sqlparse, sqlparse_available, processed, scan_log, sql_queries,
                   parsed_queries, next_query, analyzed_queries, stats, faults,
                   validator_vars, complexity_vars, parser_vars, scan_results>>

\* main.py, one turn of the parse loop; parse changes the record it is given
ParseQuery ==
    /\ pc = "parse" /\ next_query <= Len(sql_queries)
    /\ \E raised \in BOOLEAN :
          /\ raised => faults < MaxFaults
          /\ parsed_queries' = AppendParsed(parsed_queries, sql_queries[next_query], raised)
          /\ sql_queries' = IF raised THEN sql_queries
                            ELSE [sql_queries EXCEPT ![next_query] = parsed_queries'[Len(parsed_queries')]]
          /\ faults' = IF raised THEN faults + 1 ELSE faults
    /\ next_query' = next_query + 1
    /\ UNCHANGED <<java_files, use_sqlparse, sqlparse_available, pc, processed, scan_log,
                   analyzed_queries, stats, validator_vars, complexity_vars, parser_vars, scan_results>>

\* main.py: sql_analyzer.analyze_queries(parsed_queries)
AnalyzeParsedQueries ==
    /\ pc = "parse" /\ next_query > Len(sql_queries)
    /\ analyzed_queries' = AnalyzeQueries(parsed_queries)
    /\ pc' = "report"
    /\ UNCHANGED <<java_files, use_sqlparse, sqlparse_available, processed, scan_log, sql_queries,
                   parsed_queries, next_query, stats, faults, validator_vars, complexity_vars, parser_vars, scan_results>>

\* ReportGenerator.generate_summary_report: no statistics for an empty list
GenerateSummaryReport ==
    /\ pc = "report"
    /\ stats' = IF analyzed_queries = <<>> THEN <<>> ELSE <<GetQueryStatistics(analyzed_queries)>>
    /\ pc' = "done"
    /\ UNCHANGED <<java_files, use_sqlparse, sqlparse_available, processed, scan_log, sql_queries,
                   parsed_queries, next_query, analyzed_queries, faults,
                   validator_vars, complexity_vars, parser_vars, scan_results>>

Next ==
    \/ ScanFile
    \/ ScanReturn
    \/ ParseQuery
    \/ AnalyzeParsedQueries
    \/ GenerateSummaryReport

Init == PipelineInit
Spec == Init /\ [][Next]_vars
\* scan, the for loop over java_files: extract_sql_from_file returns for every
\* file, so the loop takes its next turn
ScanTurn == pc = "scan" /\ processed < Len(java_files) /\ processed' = processed + 1
\* scan runs its loop to the end and returns
FairSpec == Spec /\ WF_processed(ScanTurn) /\ WF_vars(ScanReturn)

(***************************************************************************)
(* analyzers/sql_analyzer.py: a caller of determine_query_complexity.  The *)
(* record it scores is put together from its ingredients: the fields the   *)
(* score reads and the clauses of the statement text.                      *)
(***************************************************************************)
MaxTables == 5
MaxConditions == 6
MaxOracleFeatures == 4
MaxJoins == 4

\* the words that can stand before JOIN; <<>>: a plain JOIN
join_kinds == << <<>>, KW.inner, KW.left, KW.right \o <<" ">> \o KW.outer, KW.full,
                 KW.full \o <<" ">> \o KW.outer, KW.cross >>
\* the lists of at most n join kinds, in the order of join_kinds
RECURSIVE JoinLists(_)
JoinLists(n) ==
    IF n = 0 THEN {<<>>}
    ELSE JoinLists(n - 1) \cup
         {Append(p[1], p[2]) :
            p \in {q \in {m \in JoinLists(n - 1) : Len(m) = n - 1} \X (1..Len(join_kinds)) :
                     q[1] = <<>> \/ q[1][Len(q[1])] <= q[2]}}

\* SELECT a FROM t0, a single table, no condition list, no clause
PlainSelect ==
    [query_type |-> KW.select, tables |-> 1, conditions |-> -1, oracle |-> FALSE, features |-> 0,
     joins |-> <<>>, group_by |-> FALSE, having |-> FALSE, set_operation |-> <<>>,
     case |-> FALSE, nested |-> <<>>]
\* the fields of the record: its type, the number of its tables, the number of
\* its where_conditions (-1: the record has no such field), the dialect flag
\* and the number of dialect features
RecordIngredients ==
    {[PlainSelect EXCEPT !.query_type = t, !.tables = n, !.conditions = c, !.oracle = o, !.features = f] :
       t \in {KW.select, KW.with, KW.update}, n \in 0..MaxTables, c \in -1..MaxConditions,
       o \in BOOLEAN, f \in 0..MaxOracleFeatures}
JoinIngredients == {[PlainSelect EXCEPT !.joins = j] : j \in JoinLists(MaxJoins)}
\* the clauses of the text; nested: a second SELECT or one of the subquery markers
ClauseIngredients ==
    {[PlainSelect EXCEPT !.query_type = t, !.joins = j, !.group_by = g, !.having = h,
                         !.set_operation = s, !.case = c, !.nested = n] :
       t \in {KW.select, KW.update}, j \in {<<>>, <<3>>}, g \in BOOLEAN, h \in BOOLEAN,
       s \in {<<>>, KW.union, KW.intersect, KW.except}, c \in BOOLEAN,
       n \in {<<>>, KW.select, KW.subquery, KW.sub_query}}
\* every term at once: the most tables, conditions and dialect features, three
\* joins or more, every clause, a set operation and a nested SELECT
FullIngredients ==
    {[PlainSelect EXCEPT !.query_type = t, !.tables = MaxTables, !.conditions = MaxConditions,
                         !.oracle = TRUE, !.features = MaxOracleFeatures, !.joins = j,
                         !.group_by = TRUE, !.having = TRUE, !.set_operation = KW.union,
                         !.case = TRUE, !.nested = KW.select] :
       t \in {KW.select, KW.with, KW.update},
       j \in {m \in JoinLists(MaxJoins) : Len(m) >= complexity_terms.max_joins}}
Ingredients == RecordIngredients \cup JoinIngredients \cup ClauseIngredients \cup FullIngredients

\* the statement text of the ingredients
StatementHead(query_type) ==
    CASE query_type = KW.select -> <<"S","E","L","E","C","T"," ","a"," ","F","R","O","M"," ","t","0">>
      [] query_type = KW.with -> <<"W","I","T","H"," ","c"," ","A","S"," ","(","S","E","L","E","C","T"," ","1",")"," ","S","E","L","E","C","T"," ","a"," ","F","R","O","M"," ","c">>
      [] OTHER -> <<"U","P","D","A","T","E"," ","t","0"," ","S","E","T"," ","a"," ","="," ","1">>
RECURSIVE JoinText(_)
JoinText(joins) ==
    IF joins = <<>> THEN <<>>
    ELSE (IF join_kinds[Head(joins)] = <<>> THEN <<>> ELSE <<" ">> \o join_kinds[Head(joins)])
         \o <<" ">> \o KW.join \o <<" ","u"," ","O","N"," ","1">> \o JoinText(Tail(joins))
NestedText(nested) ==
    CASE nested = <<>> -> <<>>
      [] nested = KW.select -> <<" ","W","H","E","R","E"," ","a"," ","I","N"," ","(","S","E","L","E","C","T"," ","b"," ","F","R","O","M"," ","v",")">>
      [] nested = KW.subquery -> <<" ","/","*"," ","s","u","b","q","u","e","r","y"," ","*","/">>
      [] OTHER -> <<" ","/","*"," ","s","u","b","-","q","u","e","r","y"," ","*","/">>
TextOf(i) ==
    StatementHead(i.query_type) \o JoinText(i.joins) \o NestedText(i.nested)
    \o (IF i.group_by THEN <<" ","G","R","O","U","P"," ","B","Y"," ","a">> ELSE <<>>)
    \o (IF i.having THEN <<" ","H","A","V","I","N","G"," ","b"," ",">"," ","1">> ELSE <<>>)
    \o (IF i.case THEN <<" ","O","R","D","E","R"," ","B","Y"," ","C","A","S","E"," ","W","H","E","N"," ","a"," ","T","H","E","N"," ","1"," ","E","N","D">> ELSE <<>>)
    \o (IF i.set_operation = <<>> THEN <<>> ELSE <<" ">> \o i.set_operation \o <<" ","S","E","L","E","C","T"," ","b"," ","F","R","O","M"," ","w">>)
\* the record the caller passes: SQLQuery(...) with the fields set as a parser
\* or another caller sets them
QueryOf(i) ==
    LET query == [SQLQuery(TextOf(i), "Query.java", "Java", i.query_type) EXCEPT
                     !.tables = [k \in 1..i.tables |-> <<"t">>],
                     !.is_oracle_specific = i.oracle,
                     !.oracle_feature_count = i.features,
                     !.parsed = TRUE]
    IN  IF i.conditions < 0 THEN query
        ELSE query @@ [where_conditions |-> [k \in 1..i.conditions |-> <<"c">>]]

ComplexityInit ==
    /\ ingredients \in Ingredients
    /\ record = <<>> /\ score = <<>>
    /\ sqlparse_available = FALSE
    /\ ValidatorIdle /\ PipelineIdle /\ ParserIdle

\* the caller builds the record
NewQuery ==
    /\ ingredients # <<>> /\ record = <<>>
    /\ record' = <<QueryOf(ingredients)>>
    /\ UNCHANGED <<ingredients, score, validator_vars, sqlparse_available, pipeline_vars, parser_vars, scan_results>>
\* analyze_queries, line 173: self.determine_query_complexity(query)
DetermineComplexity ==
    /\ record # <<>> /\ score = <<>>
    /\ score' = <<DetermineQueryComplexity(record[1])>>
    /\ UNCHANGED <<ingredients, record, validator_vars, sqlparse_available, pipeline_vars, parser_vars, scan_results>>

\* the statement with one more join of kind k, or a GROUP BY, or one more
\* detected dialect feature; every other ingredient is left as it is
InsertJoin(joins, k) ==
    SelectSeq(joins, LAMBDA x : x <= k) \o <<k>> \o SelectSeq(joins, LAMBDA x : x > k)
Extensions(i) ==
    {[i EXCEPT !.joins = InsertJoin(i.joins, k)] : k \in {j \in 1..Len(join_kinds) : Len(i.joins) < MaxJoins}}
    \cup {[i EXCEPT !.group_by = TRUE] : g \in {x \in {TRUE} : ~i.group_by}}
    \cup {[i EXCEPT !.features = i.features + 1, !.oracle = o] :
             o \in {x \in {i.oracle, TRUE} : i.features < MaxOracleFeatures}}
\* the caller scores the extended statement too; score holds the new score
\* before the earlier one
DetermineComplexityOfExtended ==
    /\ Len(score) = 1
    /\ \E i \in Extensions(ingredients) :
          /\ ingredients' = i
          /\ record' = <<QueryOf(i)>>
          /\ score' = <<DetermineQueryComplexity(QueryOf(i))>> \o score
    /\ UNCHANGED <<validator_vars, sqlparse_available, pipeline_vars, parser_vars, scan_results>>

ComplexityNext == NewQuery \/ DetermineComplexity \/ DetermineComplexityOfExtended
ComplexitySpec == ComplexityInit /\ [][ComplexityNext]_vars

(***************************************************************************)
(* parsers/sql_parser.py, parsers/oracle_detector.py and the callers of    *)
(* get_query_type: a caller that has a statement text and either calls one *)
(* function with the text, or takes the record a scanner emits for it      *)
(* through parse and analyze_queries, once and again.                      *)
(***************************************************************************)
MaxPasses == 2

\* test_oracle_detector.py, test_cases: the rows expected True
oracle_specific_cases ==
    << <<"S","E","L","E","C","T"," ","*"," ","F","R","O","M"," ","e","m","p","l","o","y","e","e","s"," ","W","H","E","R","E"," ","R","O","W","N","U","M"," ","<"," ","1","0">>,
       <<"S","E","L","E","C","T"," ","e",".","*",","," ","R","O","W","I","D"," ","F","R","O","M"," ","e","m","p","l","o","y","e","e","s"," ","e">>,
       <<"S","E","L","E","C","T"," ","*"," ","F","R","O","M"," ","e","m","p","l","o","y","e","e","s"," ","C","O","N","N","E","C","T"," ","B","Y"," ","P","R","I","O","R"," ","e","m","p","_","i","d"," ","="," ","m","a","n","a","g","e","r","_","i","d"," ","S","T","A","R","T"," ","W","I","T","H"," ","m","a","n","a","g","e","r","_","i","d"," ","I","S"," ","N","U","L","L">>,
       <<"S","E","L","E","C","T"," ","*"," ","F","R","O","M"," ","e","m","p","l","o","y","e","e","s"," ","W","H","E","R","E"," ","h","i","r","e","_","d","a","t","e"," ","="," ","T","O","_","D","A","T","E","(","'","2","0","2","2","-","0","1","-","0","1","'",","," ","'","Y","Y","Y","Y","-","M","M","-","D","D","'",")">>,
       <<"S","E","L","E","C","T"," ","N","V","L","(","s","a","l","a","r","y",","," ","0",")"," ","F","R","O","M"," ","e","m","p","l","o","y","e","e","s">>,
       <<"S","E","L","E","C","T"," ","D","E","C","O","D","E","(","s","t","a","t","u","s",","," ","'","A","'",","," ","'","A","c","t","i","v","e","'",","," ","'","I","'",","," ","'","I","n","a","c","t","i","v","e","'",","," ","'","U","n","k","n","o","w","n","'",")"," ","F","R","O","M"," ","e","m","p","l","o","y","e","e","s">>,
       <<"S","E","L","E","C","T"," ","/","*","+"," ","I","N","D","E","X","(","e","m","p","l","o","y","e","e","s"," ","e","m","p","_","i","d","x",")"," ","*","/"," ","*"," ","F","R","O","M"," ","e","m","p","l","o","y","e","e","s">>,
       <<"S","E","L","E","C","T"," ","e","m","p","l","o","y","e","e","_","i","d",","," ","M","O","N","T","H","S","_","B","E","T","W","E","E","N","(","S","Y","S","D","A","T","E",","," ","h","i","r","e","_","d","a","t","e",")"," ","t","e","n","u","r","e"," ","F","R","O","M"," ","e","m","p","l","o","y","e","e","s">>,
       <<"S","E","L","E","C","T"," ","*"," ","F","R","O","M"," ","e","m","p","l","o","y","e","e","s"," ","e"," ","W","H","E","R","E"," ","e",".","d","e","p","t","_","i","d","(","+",")"," ","="," ","d",".","d","e","p","t","_","i","d">>,
       <<"S","E","L","E","C","T"," ","*"," ","F","R","O","M"," ","e","m","p","l","o","y","e","e","s"," ","P","I","V","O","T"," ","(","C","O","U","N","T","(","*",")"," ","F","O","R"," ","s","t","a","t","u","s"," ","I","N"," ","(","'","A","'",","," ","'","I","'",","," ","'","P","'",")",")">>,
       <<"I","N","S","E","R","T"," ","I","N","T","O"," ","e","m","p","l","o","y","e","e","s"," ","V","A","L","U","E","S"," ","(","e","m","p","_","s","e","q",".","N","E","X","T","V","A","L",","," ","'","J","o","h","n","'",","," ","'","D","o","e","'",")">>,
       <<"M","E","R","G","E"," ","I","N","T","O"," ","t","a","r","g","e","t","_","t","a","b","l","e"," ","t"," ","U","S","I","N","G"," ","s","o","u","r","c","e","_","t","a","b","l","e"," ","s"," ","O","N"," ","(","t",".","i","d"," ","="," ","s",".","i","d",")">>,
       <<"S","E","L","E","C","T"," ","*"," ","F","R","O","M"," ","T","A","B","L","E","(","m","y","_","c","o","l","l","e","c","t","i","o","n",")">>,
       <<"S","E","L","E","C","T"," ","*"," ","F","R","O","M"," ","e","m","p","l","o","y","e","e","s"," ","A","S"," ","O","F"," ","T","I","M","E","S","T","A","M","P"," ","S","Y","S","T","I","M","E","S","T","A","M","P"," ","-"," ","I","N","T","E","R","V","A","L"," ","'","1","'"," ","H","O","U","R">>,
       <<"S","E","L","E","C","T"," ","*"," ","F","R","O","M"," ","D","U","A","L">>,
       <<"S","E","L","E","C","T"," ","C","O","U","N","T","(","*",")"," ","F","R","O","M"," ","U","S","E","R","_","T","A","B","L","E","S">> >>
\* test_cases, the rows expected False
standard_sql_cases ==
    << <<"S","E","L","E","C","T"," ","*"," ","F","R","O","M"," ","e","m","p","l","o","y","e","e","s"," ","W","H","E","R","E"," ","i","d"," ","="," ","1">>,
       <<"I","N","S","E","R","T"," ","I","N","T","O"," ","p","r","o","d","u","c","t","s"," ","(","n","a","m","e",","," ","p","r","i","c","e",")"," ","V","A","L","U","E","S"," ","(","'","G","a","d","g","e","t","'",","," ","1","9",".","9","9",")">>,
       <<"U","P","D","A","T","E"," ","c","u","s","t","o","m","e","r","s"," ","S","E","T"," ","s","t","a","t","u","s"," ","="," ","'","a","c","t","i","v","e","'"," ","W","H","E","R","E"," ","i","d"," ","="," ","1">>,
       <<"D","E","L","E","T","E"," ","F","R","O","M"," ","o","r","d","e","r","s"," ","W","H","E","R","E"," ","s","t","a","t","u","s"," ","="," ","'","c","a","n","c","e","l","l","e","d","'">>,
       <<"S","E","L","E","C","T"," ","e",".","n","a","m","e",","," ","d",".","n","a","m","e"," ","F","R","O","M"," ","e","m","p","l","o","y","e","e","s"," ","e"," ","J","O","I","N"," ","d","e","p","a","r","t","m","e","n","t","s"," ","d"," ","O","N"," ","e",".","d","e","p","t","_","i","d"," ","="," ","d",".","i","d">>,
       <<"C","R","E","A","T","E"," ","T","A","B","L","E"," ","n","e","w","_","e","m","p","l","o","y","e","e","s"," ","(","i","d"," ","I","N","T",","," ","n","a","m","e"," ","V","A","R","C","H","A","R","(","1","0","0",")",")">>,
       <<"A","L","T","E","R"," ","T","A","B","L","E"," ","p","r","o","d","u","c","t","s"," ","A","D","D"," ","C","O","L","U","M","N"," ","d","e","s","c","r","i","p","t","i","o","n"," ","T","E","X","T">>,
       <<"S","E","L","E","C","T"," ","*"," ","F","R","O","M"," ","o","r","d","e","r","s"," ","W","H","E","R","E"," ","c","r","e","a","t","e","d","_","a","t"," ",">"," ","'","2","0","2","3","-","0","1","-","0","1","'">>,
       <<"W","I","T","H"," ","c","t","e"," ","A","S"," ","(","S","E","L","E","C","T"," ","*"," ","F","R","O","M"," ","o","r","d","e","r","s",")"," ","S","E","L","E","C","T"," ","*"," ","F","R","O","M"," ","c","t","e">> >>
\* further statements: the outer-join marker, repeated tables and columns, an
\* empty quoted name, statements with one or two CTEs before their main
\* command, and a bare UNION
more_statements ==
    << <<"S","E","L","E","C","T"," ","*"," ","F","R","O","M"," ","e","m","p","l","o","y","e","e","s"," ","W","H","E","R","E"," ","d","e","p","t","_","i","d","(","+",")"," ","="," ","1","0">>,
       <<"S","E","L","E","C","T"," ","*"," ","F","R","O","M"," ","a",","," ","a">>,
       <<"S","E","L","E","C","T"," ","b",","," ","a",","," ","b"," ","F","R","O","M"," ","t"," ","J","O","I","N"," ","s"," ","O","N"," ","1"," ","="," ","1"," ","L","E","F","T"," ","J","O","I","N"," ","t"," ","O","N"," ","2"," ","="," ","2">>,
       <<"S","E","L","E","C","T"," ","i","d"," ","F","R","O","M"," ","\"","\""," ","W","H","E","R","E"," ","i","d"," ","="," ","1">>,
       <<"I","N","S","E","R","T"," ","I","N","T","O"," ","t"," ","(","b",","," ","a",","," ","a",")"," ","V","A","L","U","E","S"," ","(","1",","," ","2",","," ","3",")">>,
       <<"U","P","D","A","T","E"," ","t"," ","S","E","T"," ","b"," ","="," ","1",","," ","a"," ","="," ","2",","," ","b"," ","="," ","3">>,
       <<"W","I","T","H"," ","a"," ","A","S"," ","(","S","E","L","E","C","T"," ","1",")",","," ","b"," ","A","S"," ","(","S","E","L","E","C","T"," ","2",")"," ","S","E","L","E","C","T"," ","*"," ","F","R","O","M"," ","a">>,
       <<"W","I","T","H"," ","a"," ","A","S"," ","(","S","E","L","E","C","T"," ","1",")",","," ","b"," ","A","S"," ","(","S","E","L","E","C","T"," ","2",")"," ","S","E","L","E","C","T"," ","*"," ","F","R","O","M"," ","a"," ","J","O","I","N"," ","b"," ","O","N"," ","1"," ","="," ","1">>,
       <<"W","I","T","H"," ","c"," ","A","S"," ","("," ","S","E","L","E","C","T"," ","x"," ","F","R","O","M"," ","t"," ",")"," ","U","P","D","A","T","E"," ","u"," ","S","E","T"," ","y"," ","="," ","1">>,
       <<"W","I","T","H"," ","c"," ","A","S"," ","(","S","E","L","E","C","T"," ","x"," ","F","R","O","M"," ","t",")"," ","D","E","L","E","T","E"," ","F","R","O","M"," ","u"," ","W","H","E","R","E"," ","y"," ","I","N"," ","(","S","E","L","E","C","T"," ","x"," ","F","R","O","M"," ","c",")">>,
       <<"W","I","T","H"," ","c"," ","(","x",")"," ","A","S"," ","(","S","E","L","E","C","T"," ","1",")"," ","S","E","L","E","C","T"," ","N","V","L","(","x",","," ","0",")"," ","F","R","O","M"," ","t"," ","G","R","O","U","P"," ","B","Y"," ","x">>,
       <<"a"," ","U","N","I","O","N"," ","A","L","L"," ","S","E","L","E","C","T"," ","b"," ","F","R","O","M"," ","t"," ","W","H","E","R","E"," ","c"," ","="," ","1">> >>
\* statements with function calls, nested calls and subqueries in the column
\* section, with aliases and qualified names, and an INSERT without a column list
column_statements ==
    << <<"S","E","L","E","C","T"," ","f","(","a",","," ","b",")",","," ","c"," ","F","R","O","M"," ","t">>,
       <<"S","E","L","E","C","T"," ","f","(","g","(","a",","," ","b",")",","," ","c",")",","," ","d"," ","F","R","O","M"," ","t">>,
       <<"U","P","D","A","T","E"," ","t"," ","S","E","T"," ","a"," ","="," ","f","(","1",","," ","2",")",","," ","b"," ","="," ","3">>,
       <<"C","R","E","A","T","E"," ","T","A","B","L","E"," ","t"," ","(","i","d"," ","I","N","T",","," ","p","r","i","c","e"," ","D","E","C","I","M","A","L","(","1","0",","," ","2",")",")">>,
       <<"S","E","L","E","C","T"," ","e",".","n","a","m","e"," ","A","S"," ","n",","," ","d",".","i","d"," ","F","R","O","M"," ","e">>,
       <<"S","E","L","E","C","T"," ","e",".","n","a","m","e"," ","a","s"," ","n"," ","F","R","O","M"," ","e">>,
       <<"I","N","S","E","R","T"," ","I","N","T","O"," ","t"," ","V","A","L","U","E","S"," ","(","1",","," ","2",")">>,
       <<"S","E","L","E","C","T"," ","a",","," ","(","S","E","L","E","C","T"," ","b",","," ","c"," ","F","R","O","M"," ","s",")"," ","F","R","O","M"," ","t">> >>
\* a statement with four kinds of join, and a statement with one condition
\* after WHERE next to the same statement with four
analysis_statements ==
    << <<"S","E","L","E","C","T"," ","a"," ","F","R","O","M"," ","t"," ","N","A","T","U","R","A","L"," ","J","O","I","N"," ","u"," ","C","R","O","S","S"," ","J","O","I","N"," ","v"," ","F","U","L","L"," ","O","U","T","E","R"," ","J","O","I","N"," ","w"," ","O","N"," ","1"," ","="," ","1"," ","R","I","G","H","T"," ","J","O","I","N"," ","x"," ","O","N"," ","2"," ","="," ","2">>,
       <<"S","E","L","E","C","T"," ","a"," ","F","R","O","M"," ","t"," ","W","H","E","R","E"," ","a"," ","="," ","1">>,
       <<"S","E","L","E","C","T"," ","a"," ","F","R","O","M"," ","t"," ","W","H","E","R","E"," ","a"," ","="," ","1"," ","A","N","D"," ","b"," ","="," ","2"," ","A","N","D"," ","c"," ","="," ","3"," ","A","N","D"," ","d"," ","="," ","4">> >>
Statements ==
    Range(oracle_specific_cases) \cup Range(standard_sql_cases) \cup Range(more_statements)
    \cup Range(column_statements) \cup Range(analysis_statements)
\* the statement types a caller can pass to extract_tables and extract_columns
ExtractionTypes == Range(parser_query_types) \cup {KW.unknown, KW.with}

ParserInit ==
    /\ statement \in Statements
    /\ sql_query = <<>> /\ answer = <<>> /\ scan_results = <<>>
    /\ sqlparse_available \in BOOLEAN
    /\ ValidatorIdle /\ PipelineIdle /\ ComplexityIdle

\* extract_sql_from_file, lines 152-165: a scanner, with either validator
\* strategy, emits the record of a text it holds for valid
EmitQuery ==
    /\ sql_query = <<>> /\ answer = <<>>
    /\ \E use \in BOOLEAN :
          /\ IsValidSqlQuery(statement, use, sqlparse_available)
          /\ sql_query' = <<SQLQuery(statement, "Query.java", "Java",
                                     DetectQueryType(statement, use, sqlparse_available))>>
    /\ UNCHANGED <<statement, answer, scan_results, sqlparse_available, validator_vars,
                   pipeline_vars, complexity_vars>>
\* main.py, lines 162-174: sql_parser.parse(query), then analyze_queries of the
\* parsed record; the record that comes back is the one passed the next time
ParseAndAnalyze ==
    /\ sql_query # <<>> /\ Len(sql_query) <= MaxPasses
    /\ sql_query' = sql_query \o AnalyzeQueries(<<Parse(sql_query[Len(sql_query)])>>)
    /\ UNCHANGED <<statement, answer, scan_results, sqlparse_available, validator_vars,
                   pipeline_vars, complexity_vars>>
\* detector.detect_oracle_features(query): the keys of the dictionary returned
DetectOracleFeatures ==
    /\ sql_query = <<>> /\ answer = <<>>
    /\ answer' = <<[call |-> "detect_oracle_features", result |-> FeaturesOfUpper(Upper(statement))]>>
    /\ UNCHANGED <<statement, sql_query, scan_results, sqlparse_available, validator_vars,
                   pipeline_vars, complexity_vars>>
\* sql_parser.identify_query_type(query_text)
IdentifyType ==
    /\ sql_query = <<>> /\ answer = <<>>
    /\ answer' = <<[call |-> "identify_query_type", result |-> IdentifyQueryType(statement)]>>
    /\ UNCHANGED <<statement, sql_query, scan_results, sqlparse_available, validator_vars,
                   pipeline_vars, complexity_vars>>
\* sql_validator.get_query_type(query_text), sqlparse_validator.get_query_type(query_text)
GetQueryType ==
    /\ sql_query = <<>> /\ answer = <<>>
    /\ \E validator \in {"SQLValidator", "SqlParseValidator"} :
          answer' = <<[call |-> "get_query_type", validator |-> validator,
                       result |-> IF validator = "SQLValidator"
                                  THEN SQLValidator_get_query_type(statement)
                                  ELSE SqlParseValidator_get_query_type(statement, sqlparse_available)]>>
    /\ UNCHANGED <<statement, sql_query, scan_results, sqlparse_available, validator_vars,
                   pipeline_vars, complexity_vars>>
\* sql_parser.extract_tables(query_text, query_type) and
\* sql_parser.extract_columns(query_text, query_type), for any type
ExtractNames ==
    /\ sql_query = <<>> /\ answer = <<>>
    /\ \E query_type \in ExtractionTypes :
          answer' = <<[call |-> "extract", query_type |-> query_type,
                       tables |-> ExtractTables(statement, query_type),
                       columns |-> ExtractColumns(statement, query_type)]>>
    /\ UNCHANGED <<statement, sql_query, scan_results, sqlparse_available, validator_vars,
                   pipeline_vars, complexity_vars>>

\* analyzer.detect_join_types(query), for a record parse has filled
DetectJoins ==
    /\ Len(sql_query) >= 2 /\ answer = <<>>
    /\ answer' = <<[call |-> "detect_join_types", passed |-> Len(sql_query),
                    result |-> DetectJoinTypes(sql_query[Len(sql_query)])]>>
    /\ UNCHANGED <<statement, sql_query, scan_results, sqlparse_available, validator_vars,
                   pipeline_vars, complexity_vars>>

ParserNext ==
    \/ EmitQuery
    \/ ParseAndAnalyze
    \/ DetectJoins
    \/ DetectOracleFeatures
    \/ IdentifyType
    \/ GetQueryType
    \/ ExtractNames
ParserSpec == ParserInit /\ [][ParserNext]_vars

(***************************************************************************)
(* scanner/java_scanner.py: scan() called again on the same scanner, over  *)
(* the same files.  What raises in a file is part of the file tree: a call *)
(* that raised at a match raises there again.                              *)
(***************************************************************************)
MaxScans == 3

\* the loop of scan over java_files, from file k, extending the list queries
RECURSIVE ScanFiles(_, _, _, _, _)
ScanFiles(queries, files, strategy, raised_at, k) ==
    IF k > Len(files) THEN queries
    ELSE ScanFiles(queries \o ExtractSqlFromFile(files[k], strategy, raised_at[k]),
                   files, strategy, raised_at, k + 1)
\* a deviation from scan: the list the scanner holds is not reset
ScanKeeping(held, files, strategy, raised_at) == ScanFiles(held, files, strategy, raised_at, 1)
\* JavaScanner.scan for a scanner that holds the list held: self.sql_queries = [],
\* then the loop; with no file the result is the empty list
Scan(held, files, strategy, raised_at) == ScanFiles(<<>>, files, strategy, raised_at, 1)

most_matches == CHOOSE n \in Range(match_count) : \A m \in Range(match_count) : m <= n
\* where the handling of the matches raises, file by file: at most MaxFaults
\* files raise, and only files that can be read
RaisePlans(files) ==
    {plan \in [1..Len(files) -> 0..most_matches] :
        /\ \A k \in 1..Len(files) :
              /\ plan[k] <= match_count[files[k]]
              /\ plan[k] > 0 => source_files[files[k]].readable
        /\ Cardinality({k \in 1..Len(files) : plan[k] > 0}) <= MaxFaults}

\* the number of records of a list that come from a source file
RecordsOf(queries, f) ==
    Cardinality({k \in 1..Len(queries) : queries[k].source_file = source_files[f].path})

RescanInit ==
    /\ java_files \in FindJavaFiles
    /\ use_sqlparse \in BOOLEAN
    /\ sqlparse_available \in BOOLEAN
    /\ pc = "scan" /\ processed = 0 /\ scan_log = <<>>
    /\ sql_queries = <<>> /\ parsed_queries = <<>> /\ next_query = 1
    /\ analyzed_queries = <<>> /\ stats = <<>> /\ faults = 0
    /\ ValidatorIdle /\ ComplexityIdle /\ ParserIdle

\* one call of scan(), whole; sql_queries is the list the scanner holds
Rescan ==
    /\ pc = "scan" /\ Len(scan_results) < MaxScans
    /\ \E plan \in RaisePlans(java_files) :
          /\ scan_results # <<>> => \A k \in 1..Len(java_files) : plan[k] = scan_log[k].raised_at
          /\ sql_queries' = Scan(sql_queries, java_files, <<use_sqlparse, sqlparse_available>>, plan)
          /\ scan_log' = [k \in 1..Len(java_files) |->
                            [file_path |-> java_files[k], raised_at |-> plan[k],
                             returned |-> RecordsOf(sql_queries', java_files[k])]]
          /\ faults' = Cardinality({k \in 1..Len(java_files) : plan[k] > 0})
    /\ scan_results' = Append(scan_results, sql_queries')
    /\ processed' = Len(java_files)
    /\ UNCHANGED <<java_files, use_sqlparse, sqlparse_available, pc, parsed_queries, next_query,
                   analyzed_queries, stats, validator_vars, complexity_vars, parser_vars>>

RescanNext == Rescan

RescanSpec == RescanInit /\ [][RescanNext]_vars

(***************************************************************************)
(* Claims about the validators                                             *)
(***************************************************************************)
\* the leading keyword of a statement: its first word, upper-cased
LeadingWord(t) == Upper(SubSeq(LStrip(t), 1, RunEnd(LStrip(t), 1, WordSet) - 1))
DmlKinds == {KW.select, KW.insert, KW.update, KW.delete}

\* C1: a text of a cataloged false-positive shape (method call that starts
\* with a SQL verb, dotted access on a keyword-named identifier, UI copy that
\* starts with a SQL verb) is rejected by SQLValidator.is_valid_sql and by
\* SqlParseValidator.is_valid_sql, with the tokenizer or without it.
C1_FalsePositiveShapesRejected ==
    query_text \in FalsePositiveShapes =>
        /\ basic_verdict # <<>> => ~basic_verdict[1].valid
        /\ sqlparse_verdict # <<>> => ~sqlparse_verdict[1].valid

\* C2: a well-formed statement of at least 10 characters is accepted by each
\* validator strategy, and for SELECT, INSERT, UPDATE and DELETE statements
\* get_query_type returns the statement's leading keyword.
C2_WellFormedStatementsAccepted ==
    (query_text \in WellFormedStatements /\ Len(query_text) >= MinSqlLength) =>
        /\ basic_verdict # <<>> => basic_verdict[1].valid
        /\ sqlparse_verdict # <<>> => sqlparse_verdict[1].valid
        /\ LeadingWord(query_text) \in DmlKinds =>
              /\ basic_type # <<>> => basic_type[1] = LeadingWord(query_text)
              /\ sqlparse_type # <<>> => sqlparse_type[1] = LeadingWord(query_text)

\* C3: without the tokenizer, SqlParseValidator.is_valid_sql gives every text
\* the verdict SQLValidator.is_valid_sql gives it.
C3_FallbackAgreesWithHeuristic ==
    (~sqlparse_available /\ basic_verdict # <<>> /\ sqlparse_verdict # <<>>) =>
        sqlparse_verdict[1].valid = basic_verdict[1].valid

(***************************************************************************)
(* Claims about the run from the scan to the summary report                *)
(***************************************************************************)
\* the file a scan_log entry is about
LoggedFile(j) == source_files[scan_log[j].file_path]
\* the statement types a record may carry
StatementTypes == Range(parser_query_types) \cup {KW.unknown}
\* the matches but match k
Without(matches, k) == SubSeq(matches, 1, k - 1) \o SubSeq(matches, k + 1, Len(matches))

\* C4: extract_sql_from_file returns one record per SQL string literal of the
\* file, however many patterns match the literal; for the file that holds
\* String sql = "SELECT name FROM employees WHERE dept = 'IT'"; the run ends
\* with one record: SELECT, tables {employees}, columns {name}, complexity 1.
C4_OneRecordPerLiteral ==
    /\ \A j \in 1..Len(scan_log) :
          (LoggedFile(j).readable /\ scan_log[j].raised_at = 0) =>
              scan_log[j].returned = LoggedFile(j).literals
    /\ (pc = "done" /\ faults = 0 /\ Len(java_files) = 1
        /\ source_files[java_files[1]].path = "Scenario.java") =>
          /\ Len(analyzed_queries) = 1
          /\ analyzed_queries[1].query_type = KW.select
          /\ analyzed_queries[1].tables = << <<"e","m","p","l","o","y","e","e","s">> >>
          /\ analyzed_queries[1].columns = << <<"n","a","m","e">> >>
          /\ analyzed_queries[1].complexity = 1

\* C5: the query_type of every record a scanner emitted and SQLParser.parse
\* returned is one of SELECT, INSERT, UPDATE, DELETE, CREATE, ALTER, DROP,
\* TRUNCATE, MERGE, GRANT, REVOKE, UNKNOWN, under either validator strategy.
C5_QueryTypeInClosedSet ==
    \A k \in 1..Len(parsed_queries) : parsed_queries[k].query_type \in StatementTypes

\* C6: every record counted by get_query_statistics has parsed = TRUE: the
\* statistics count the records parse returned and no record it did not.
C6_StatisticsCountOnlyParsed ==
    /\ \A k \in 1..Len(analyzed_queries) : analyzed_queries[k].parsed
    /\ stats # <<>> =>
          /\ stats[1].total_queries = Cardinality({k \in 1..Len(sql_queries) : sql_queries[k].parsed})
          /\ stats[1].avg_complexity.count = stats[1].total_queries
          /\ Sum([k \in 1..Len(analyzed_queries) |->
                    IF analyzed_queries[k].parsed THEN 1 ELSE 0]) = stats[1].total_queries
\* a parse raised, and the report counted the records that were parsed
C6_Witness ==
    /\ pc = "done" /\ stats # <<>>
    /\ \E k \in 1..Len(sql_queries) : ~sql_queries[k].parsed
    /\ stats[1].total_queries = Len(sql_queries) - 1

\* C7: the average complexity of the report is the mean of the complexity
\* scores analyze_queries computed: their sum over their number.
C7_AverageIsMeanOfComplexity ==
    stats # <<>> =>
        /\ stats[1].avg_complexity.count = Len(analyzed_queries)
        /\ stats[1].avg_complexity.sum =
              Sum([k \in 1..Len(analyzed_queries) |-> analyzed_queries[k].complexity])

\* C8: when the handling of one match raises, extract_sql_from_file skips that
\* match only: it returns the accepted matches among all the others.
C8_OnlyOffendingMatchSkipped ==
    \A j \in 1..Len(scan_log) :
        scan_log[j].raised_at > 0 =>
            scan_log[j].returned =
                Len(QueriesFrom(LoggedFile(j).path,
                                Without(clean_matches[scan_log[j].file_path], scan_log[j].raised_at),
                                1, use_sqlparse, sqlparse_available))

\* the number of records the calls of extract_sql_from_file returned
RECURSIVE Returned(_)
Returned(log) == IF log = <<>> THEN 0 ELSE Head(log).returned + Returned(Tail(log))
\* C9: scan visits every discovered file once, in the order of the listing,
\* and returns; an unreadable file or an error in one file does not end the
\* scan, and what the other files returned stays in the result.
C9_ScanVisitsEveryFileOnce ==
    /\ [](/\ Len(scan_log) = processed /\ processed <= Len(java_files)
          /\ \A j \in 1..Len(scan_log) : scan_log[j].file_path = java_files[j])
    /\ [](pc = "scan" => Len(sql_queries) = Returned(scan_log))
    /\ [](pc # "scan" => Len(scan_log) = Len(java_files))
    /\ [][pc = "scan" => SubSeq(sql_queries', 1, Len(sql_queries)) = sql_queries]_vars
    /\ <>[](pc # "scan")
\* scan has returned; a file was unreadable or raised, and another file's records were returned
C9_Witness ==
    /\ pc # "scan"
    /\ \E i, j \in 1..Len(scan_log) :
          /\ i # j
          /\ scan_log[i].raised_at > 0 \/ ~LoggedFile(i).readable
          /\ scan_log[j].returned > 0
          /\ Len(sql_queries) >= scan_log[j].returned

(***************************************************************************)
(* Claims about determine_query_complexity                                 *)
(***************************************************************************)
\* C10: determine_query_complexity returns the sum of: 1 for type SELECT or
\* WITH; min(3, tables - 1) for more than one table; min(2, conditions div 2);
\* min(3, features) for a dialect-specific record; with a JOIN, min(3, joins)
\* plus 1 for an OUTER, LEFT or RIGHT join, 2 for a FULL join, 2 for a CROSS
\* join; 1 for GROUP BY; 1 for HAVING; 2 for UNION, INTERSECT or EXCEPT; 1 for
\* CASE; 2 for a second SELECT or a subquery marker; and nothing else.
C10_ComplexityIsSumOfPolicyTerms ==
    score # <<>> =>
        LET i == ingredients
            Joined(word) == \E k \in 1..Len(i.joins) : HasSub(join_kinds[i.joins[k]], word)
            select_tokens ==
                (IF i.query_type = KW.select THEN 1 ELSE IF i.query_type = KW.with THEN 2 ELSE 0)
                + (IF i.set_operation # <<>> THEN 1 ELSE 0)
                + (IF i.nested = KW.select THEN 1 ELSE 0)
        IN  score[1] =
                (IF i.query_type \in {KW.select, KW.with} THEN 1 ELSE 0)
                + (IF i.tables > 1 THEN Min(3, i.tables - 1) ELSE 0)
                + (IF i.conditions > 0 THEN Min(2, i.conditions \div 2) ELSE 0)
                + (IF i.oracle THEN Min(3, i.features) ELSE 0)
                + (IF i.joins # <<>>
                   THEN Min(3, Len(i.joins))
                        + (IF Joined(KW.outer) \/ Joined(KW.left) \/ Joined(KW.right) THEN 1 ELSE 0)
                        + (IF Joined(KW.full) THEN 2 ELSE 0)
                        + (IF Joined(KW.cross) THEN 2 ELSE 0)
                   ELSE 0)
                + (IF i.group_by THEN 1 ELSE 0)
                + (IF i.having THEN 1 ELSE 0)
                + (IF i.set_operation # <<>> THEN 2 ELSE 0)
                + (IF i.case THEN 1 ELSE 0)
                + (IF select_tokens > 1 \/ i.nested \in {KW.subquery, KW.sub_query} THEN 2 ELSE 0)
\* a SELECT of one table with more joins than the cap, a FULL and a CROSS join
\* among them and no outer join, scored 1 + 3 + 2 + 2
C10_Witness ==
    /\ score = <<8>>
    /\ Len(ingredients.joins) > 3
    /\ \E k \in 1..Len(ingredients.joins) : join_kinds[ingredients.joins[k]] = KW.full
    /\ \E k \in 1..Len(ingredients.joins) : join_kinds[ingredients.joins[k]] = KW.cross


\* C11: the score is monotone: for any record, one more join, an added GROUP
\* BY, or one more detected dialect feature, all else equal, never decreases
\* the value determine_query_complexity returns.
C11_ComplexityIsMonotone ==
    [][(Len(score) = 1 /\ Len(score') = 2) =>
          /\ score'[2] = score[1]
          /\ ingredients' \in Extensions(ingredients)
          /\ score'[1] >= score[1]]_vars
\* a join was added to a statement that had the cap's number of joins or more
\* (no GROUP BY and no dialect feature was): the score stayed as it was
C11_Witness ==
    /\ Len(score) = 2 /\ score[1] = score[2]
    /\ Len(ingredients.joins) = MaxJoins
    /\ ~ingredients.group_by /\ ingredients.features = 0


(***************************************************************************)
(* Claims about the parser, the detector and the statement type            *)
(***************************************************************************)
\* the fields idempotence is claimed for
Structure(q) ==
    <<q.query_type, q.tables, q.columns, q.join_types, q.join_count, q.oracle_features, q.complexity>>

\* C12: parse followed by analyze_queries, applied again to a record already
\* processed (the same query text), leaves query_type, tables, columns,
\* join_types, join_count, the dialect feature list and complexity as they
\* were after the first application.
C12_ParseAndAnalyzeIdempotent ==
    /\ [](\A k \in 3..Len(sql_query) : Structure(sql_query[k]) = Structure(sql_query[2]))
    /\ [][(Len(sql_query) >= 2 /\ Len(sql_query') = Len(sql_query) + 1) =>
             /\ sql_query'[Len(sql_query')].query_text = sql_query[Len(sql_query)].query_text
             /\ Structure(sql_query'[Len(sql_query')]) = Structure(sql_query[Len(sql_query)])]_vars
\* a record with two tables, a join, a dialect feature or a type that parse
\* had to keep, processed twice
C12_Witness ==
    /\ Len(sql_query) = 3
    /\ sql_query[3].parsed /\ sql_query[3].complexity > 1
    /\ \/ Len(sql_query[3].tables) >= 2 /\ sql_query[3].join_count >= 1
       \/ sql_query[3].oracle_features # <<>>


\* C13: detect_oracle_features returns a non-empty result for every statement
\* of the test list that uses an Oracle-only construct (ROWNUM, ROWID, CONNECT
\* BY / START WITH, TO_DATE, NVL, DECODE, optimizer hints, MONTHS_BETWEEN, the
\* (+) operator, PIVOT, NEXTVAL, MERGE INTO, TABLE(collection), AS OF
\* TIMESTAMP, FROM DUAL, USER_* views), the (+) marker among the features of
\* a statement that uses it, and an empty result for every standard statement.
C13_DetectorSeparatesDialect ==
    (answer # <<>> /\ answer[1].call = "detect_oracle_features") =>
        /\ statement \in Range(oracle_specific_cases) => answer[1].result # <<>>
        /\ statement = more_statements[1] => "outer_join_operator" \in Range(answer[1].result)
        /\ statement \in Range(standard_sql_cases) => answer[1].result = <<>>


\* the names of the catalog, in the order of oracle_patterns
oracle_pattern_names ==
    <<"connect_by", "start_with", "pivot", "unpivot", "merge", "outer_join_operator",
      "optimizer_hint", "decode", "nvl", "nvl2", "instr", "regexp_like", "to_date", "add_months",
      "months_between", "sequence_nextval", "sequence_currval", "varchar2", "number", "rowid",
      "clob", "blob", "analytic_function", "table_hint", "dual_table", "system_tables",
      "plsql_table", "flashback_query", "alter_system", "sqlplus_command">>
\* C14: after parse, a record is flagged dialect-specific exactly when its
\* feature list is non-empty; oracle_feature_count is the length of the list;
\* the list holds one entry per catalog pattern that matches the statement
\* text, each name at most once.
C14_FlaggedIffFeatures ==
    \A k \in 2..Len(sql_query) :
        LET q == sql_query[k] IN
        /\ q.is_oracle_specific <=> q.oracle_features # <<>>
        /\ q.oracle_feature_count = Len(q.oracle_features)
        /\ \A i, j \in 1..Len(q.oracle_features) :
              q.oracle_features[i] = q.oracle_features[j] => i = j
        /\ Range(q.oracle_features) \subseteq Range(oracle_pattern_names)
        /\ Range(q.oracle_features) = Range(FeaturesOfUpper(Upper(q.query_text)))
\* a parsed record with two features: CONNECT BY and START WITH
C14_Witness ==
    /\ Len(sql_query) >= 2
    /\ sql_query[2].parsed /\ sql_query[2].is_oracle_specific
    /\ sql_query[2].oracle_features = <<"connect_by", "start_with">>

\* a list of identifiers in strictly ascending order of str, none of them empty
StrictlyAscending(names) ==
    /\ \A k \in 1..Len(names) - 1 : StrLess(names[k], names[k + 1])
    /\ \A k \in 1..Len(names) : names[k] # <<>>
\* C16: for every statement text and statement type the tables of
\* extract_tables and the columns of extract_columns are sorted, without
\* duplicates and without an empty identifier; SELECT * FROM a, a gives the
\* one table a.
C16_NamesStrictlyAscending ==
    \A k \in 1..Len(answer) :
        answer[k].call = "extract" =>
            /\ StrictlyAscending(answer[k].tables)
            /\ StrictlyAscending(answer[k].columns)
            /\ (statement = more_statements[2] /\ answer[k].query_type = KW.select)
                   => answer[k].tables = <<<<"a">>>>

\* the statement begins with the word WITH
BeginsWithWith(text) ==
    LitAt(Upper(LStrip(text)), 1, KW.with) /\ Boundary(Upper(LStrip(text)), Len(KW.with) + 1)
\* the positions of the upper-cased text where a DML keyword stands as a word
\* outside every parenthesis group
MainDmlPositions(U) ==
    {p \in 1..Len(U) :
        /\ ParenDepth(U, p) = 0 /\ Boundary(U, p)
        /\ \E k \in 1..Len(with_dml_keywords) :
              LitAt(U, p, with_dml_keywords[k]) /\ Boundary(U, p + Len(with_dml_keywords[k]))}
\* the first DML keyword after the parenthesis groups of the CTE definitions
MainDmlKeyword(text) ==
    LET U == Upper(text)
        p == Least(MainDmlPositions(U), 0)
    IN  IF p = 0 THEN <<>>
        ELSE with_dml_keywords[CHOOSE k \in 1..Len(with_dml_keywords) :
                                  LitAt(U, p, with_dml_keywords[k]) /\ Boundary(U, p + Len(with_dml_keywords[k]))]
\* C19: the type of a statement that begins with WITH is the first DML
\* keyword found after skipping the balanced parenthesis groups of the CTE
\* definitions, never a keyword inside a CTE body: under identify_query_type,
\* under the get_query_type of both validators, and so in the records the
\* scanner emits and the parser returns.
C19_WithTypedByMainStatement ==
    (BeginsWithWith(statement) /\ MainDmlKeyword(statement) # <<>>) =>
        /\ \A k \in 1..Len(answer) :
              answer[k].call \in {"identify_query_type", "get_query_type"}
                 => answer[k].result = MainDmlKeyword(statement)
        /\ \A k \in 1..Len(sql_query) : sql_query[k].query_type = MainDmlKeyword(statement)

\* the last character before position p that is not whitespace
PrevChar(U, p) ==
    LET qs == {q \in 1..(p - 1) : ~IsSpace(U[q])}
    IN  IF qs = {} THEN "" ELSE U[CHOOSE q \in qs : \A r \in qs : r <= q]
\* where the names c1..cn of the CTEs of a leading WITH start: the word after
\* WITH and the word after each comma outside the parenthesis groups, up to
\* the main statement
CtePositions(U) ==
    {p \in 1..(Least(MainDmlPositions(U), Len(U) + 1) - 1) :
        /\ ParenDepth(U, p) = 0 /\ IsWord(U[p]) /\ ~IsWord(At(U, p - 1))
        /\ \/ PrevChar(U, p) = ","
           \/ p = SkipSpace(U, SkipSpace(U, 1) + Len(KW.with))}
DeclaredCtes(text) ==
    {SubSeq(text, p, RunEnd(Upper(text), p, WordSet) - 1) : p \in CtePositions(Upper(text))}
\* C20: the tables of the parsed record of a statement with a leading WITH
\* hold the name of every CTE it introduces, together with the tables the
\* extraction rules of the statement's effective type find.
C20_CteNamesAddedToTables ==
    \A k \in 2..Len(sql_query) :
        (sql_query[k].parsed /\ BeginsWithWith(statement) /\ MainDmlKeyword(statement) # <<>>) =>
            /\ DeclaredCtes(statement) \subseteq Range(sql_query[k].tables)
            /\ TablesOf(statement, Upper(statement), table_patterns(MainDmlKeyword(statement)), 1)
                   \subseteq Range(sql_query[k].tables)


(***************************************************************************)
(* Claims about the length rule and the structure checks of the validators *)
(***************************************************************************)
\* C15: a text shorter than 10 characters, the empty text included, is
\* rejected by both validators and by is_valid_sql_query, and the length check
\* is the first rule applied: the verdict is the 'too short' one whatever the
\* other rules would say and whichever the strategy.
C15_ShortTextsRejectedAtOnce ==
    Len(query_text) < MinSqlLength =>
        /\ basic_verdict # <<>> => basic_verdict[1] = Verdict(FALSE, "Text too short to be SQL")
        /\ sqlparse_verdict # <<>> => sqlparse_verdict[1] = Verdict(FALSE, "Text too short to be SQL")
        /\ \A use \in BOOLEAN : ~IsValidSqlQuery(query_text, use, sqlparse_available)


\* the commands the heuristic validator checks for a minimum structure
structure_checked_commands == {KW.select, KW.insert, KW.update, KW.create, KW.drop}
\* C18: with the tokenizer available the parser-backed validator applies the
\* per-command checks of the heuristic validator: a text whose statement
\* keyword is SELECT, INSERT, UPDATE, CREATE or DROP is accepted exactly when
\* SELECT has a FROM or is a scalar or function expression, INSERT has INTO,
\* UPDATE has SET, and CREATE or DROP comes with an object type the heuristic
\* validator knows.
C18_SameStructureChecks ==
    (/\ sqlparse_available /\ sqlparse_verdict # <<>>
     /\ Len(query_text) >= MinSqlLength /\ ~FalseMethodPattern(query_text)
     /\ GetStatementType(FirstStatement(query_text)) \in structure_checked_commands)
    => sqlparse_verdict[1].valid
          = HeuristicCommandCheck(GetStatementType(FirstStatement(query_text)),
                                  Upper(RemoveStringLiterals(query_text))).valid

\* TABLE, VIEW, INDEX, FUNCTION, PROCEDURE, TRIGGER, SEQUENCE, DATABASE, SCHEMA
object_type_keywords == <<KW.table, KW.view, KW.index, KW.function, KW.procedure, KW.trigger,
                          KW.sequence, KW.database, KW.schema>>
\* the minimum structure of a command, read on the literal-stripped,
\* upper-cased text
MinimumStructure(command, u) ==
    CASE command = KW.select -> HasWord(u, KW.from) \/ SelectExpression(u)
      [] command = KW.update -> HasWord(u, KW.set)
      [] command = KW.insert -> HasWord(u, KW.into)
      [] command \in {KW.create, KW.drop} ->
            \E o \in 1..Len(object_type_keywords) : HasWord(u, object_type_keywords[o])
      [] OTHER -> TRUE
\* C24: a text of 10 characters or more that matches no false-positive shape
\* and begins with a command keyword is accepted by the heuristic validator
\* exactly when the minimum structure of the command is there: FROM or a
\* scalar or function expression for SELECT, SET for UPDATE, INTO for INSERT,
\* an object-type keyword for CREATE and DROP, nothing more for the others.
C24_CommandStructureDecides ==
    (/\ basic_verdict # <<>>
     /\ Len(query_text) >= MinSqlLength /\ ~MatchesFalsePositive(query_text)
     /\ SqlStartPattern(Upper(RemoveStringLiterals(query_text))))
    => basic_verdict[1].valid
          = MinimumStructure(FirstWord(Upper(RemoveStringLiterals(query_text))),
                             Upper(RemoveStringLiterals(query_text)))

\* C25: a text of 10 characters or more that matches no false-positive shape
\* and does not begin with a command keyword is accepted by the heuristic
\* validator only when its literal-stripped text holds two distinct clause
\* keywords or three syntax markers; one clause keyword, however often it
\* occurs, is not enough.
C25_EvidenceNeededWithoutCommand ==
    (/\ basic_verdict # <<>> /\ basic_verdict[1].valid
     /\ Len(query_text) >= MinSqlLength /\ ~MatchesFalsePositive(query_text)
     /\ ~SqlStartPattern(Upper(RemoveStringLiterals(query_text))))
    => \/ Cardinality(Range(ClauseMatches(Upper(RemoveStringLiterals(query_text))))) >= MinClauseMatches
       \/ Len(SyntaxMatches(Upper(RemoveStringLiterals(query_text)))) >= MinSyntaxMatches

\* C30: in the heuristic validator the false-positive filter comes before
\* every acceptance rule and reads the raw text: a text of 10 characters or
\* more in which a false-positive pattern occurs anywhere, also inside a
\* quoted value of a well-formed statement, is rejected with the
\* false-positive reason.
C30_FalsePositiveFilterFirst ==
    (/\ basic_verdict # <<>>
     /\ Len(query_text) >= MinSqlLength /\ MatchesFalsePositive(query_text))
    => basic_verdict[1] = Verdict(FALSE, "Matched false positive pattern")
\* a statement that begins with a command and has its minimum structure is
\* rejected for a pattern that occurs only inside its quoted values
C30_Witness ==
    /\ basic_verdict = <<Verdict(FALSE, "Matched false positive pattern")>>
    /\ MatchesFalsePositive(query_text)
    /\ ~MatchesFalsePositive(RemoveStringLiterals(query_text))
    /\ SqlStartPattern(Upper(RemoveStringLiterals(query_text)))
    /\ HeuristicCommandCheck(FirstWord(Upper(RemoveStringLiterals(query_text))),
                             Upper(RemoveStringLiterals(query_text))).valid

(***************************************************************************)
(* Claim about repeated scans                                              *)
(***************************************************************************)
\* C17: every call of scan() is a full rescan without state: a later call on
\* the same scanner over the same files returns a list equal to the first
\* call's, and holds no record carried over from an earlier call (every
\* record comes from a file of the scan, and a file gives no more records
\* than it has matches).
C17_RescanReturnsSameList ==
    /\ \A k \in 1..Len(scan_results) :
          /\ scan_results[k] = scan_results[1]
          /\ \A j \in 1..Len(scan_results[k]) :
                \E f \in Range(java_files) : scan_results[k][j].source_file = source_files[f].path
          /\ \A f \in Range(java_files) : RecordsOf(scan_results[k], f) <= match_count[f]
    /\ scan_results # <<>> => sql_queries = scan_results[Len(scan_results)]
\* a second call returned the records of two files again, one of them with a
\* match that raised
C17_Witness ==
    /\ Len(scan_results) >= 2
    /\ Len(java_files) = 2 /\ faults = 1
    /\ Len(scan_results[2]) >= 2
    /\ scan_results[2] = scan_results[1]


(***************************************************************************)
(* Claims about the columns and the tables the parser extracts             *)
(***************************************************************************)
\* the number of parenthesis groups open at position j of s; a closing
\* parenthesis that closes nothing opens nothing
RECURSIVE NestingAt(_, _)
NestingAt(s, j) ==
    IF j <= 1 THEN 0
    ELSE IF s[j - 1] = "(" THEN NestingAt(s, j - 1) + 1
    ELSE IF s[j - 1] = ")" /\ NestingAt(s, j - 1) > 0 THEN NestingAt(s, j - 1) - 1
    ELSE NestingAt(s, j - 1)
TopLevelCommas(s) == {j \in 1..Len(s) : s[j] = "," /\ NestingAt(s, j) = 0}
\* the pieces of s between its commas outside all parentheses, from position i
RECURSIVE TopLevelPieces(_, _)
TopLevelPieces(s, i) ==
    LET c == Least({j \in TopLevelCommas(s) : j >= i}, Len(s) + 1)
    IN  <<SubSeq(s, i, c - 1)>> \o (IF c > Len(s) THEN <<>> ELSE TopLevelPieces(s, c + 1))
\* the columns of those pieces, each piece read on its own as the code reads a piece
ColumnsOfTopLevelPieces(section, query_type) ==
    {ColumnOf(Strip(IF query_type = KW.select THEN RemoveParenGroups(TopLevelPieces(section, 1)[k])
                    ELSE TopLevelPieces(section, 1)[k]), query_type) :
        k \in 1..Len(TopLevelPieces(section, 1))} \ {<<>>}
\* C21: extract_columns cuts the column section only at the commas at
\* parenthesis depth 0, whatever the nesting: a comma inside a function call
\* or a subquery separates no two columns, every comma outside all
\* parentheses does.
C21_SplitAtTopLevelCommasOnly ==
    \A k \in 1..Len(answer) :
        (answer[k].call = "extract" /\ ColumnSection(statement, answer[k].query_type) # <<>>) =>
            Range(answer[k].columns) \ {<<"*">>}
               = ColumnsOfTopLevelPieces(ColumnSection(statement, answer[k].query_type)[1],
                                         answer[k].query_type) \ {<<"*">>}


\* expr of "expr AS alias", AS in any letter case, without its qualifier
UnaliasedName(column_expr) ==
    LET p == FindLit(Upper(column_expr), 1, Spaced(KW.as))
        expr == IF p <= Len(column_expr) THEN Strip(SubSeq(column_expr, 1, p - 1)) ELSE column_expr
    IN  CleanIdentifier(Split(expr, <<".">>)[Len(Split(expr, <<".">>))])
\* C22: of every SELECT column expression the alias is dropped, "expr AS alias"
\* is reported as expr whatever the letter case of AS, and a qualified
\* column t.col is reported as col.
C22_AliasAndQualifierDropped ==
    \A k \in 1..Len(answer) :
        (/\ answer[k].call = "extract" /\ answer[k].query_type = KW.select
         /\ ColumnSection(statement, KW.select) # <<>>) =>
            Range(answer[k].columns) \ {<<"*">>}
               = {UnaliasedName(Strip(piece)) :
                     piece \in Range(SplitTopLevel(RemoveParenGroups(ColumnSection(statement, KW.select)[1])))}
                 \ {<<>>, <<"*">>}


\* an INSERT without an explicit column list: INSERT INTO name VALUES
InsertWithoutColumns(U) ==
    /\ WordsAt(U, 1, <<KW.insert, KW.into>>) # 0
    /\ LitAt(U, SkipSpace(U, RunEnd(U, WordsAt(U, 1, <<KW.insert, KW.into>>), TableChars)), KW.values)
\* no rule of extract_tables finds a table: not the CTE rule of a leading
\* WITH, not a rule of the type, not the SELECT rules tried for type UNKNOWN
NoTableRuleMatches(text, query_type) ==
    /\ ~StartsWith(Upper(text), KW.with \o <<" ">>) \/ CteNames(text) = {}
    /\ TablesOf(text, Upper(text), table_patterns(query_type), 1) = {}
    /\ \/ query_type # KW.unknown
       \/ TablesOf(text, Upper(text), table_patterns(KW.select), 1) = {}
\* C23: an extraction rule that finds nothing gives the empty list, it is
\* no error: extract_columns returns no column for a type without a column
\* rule, for a text its rule does not match, and for an INSERT without a
\* column list; extract_tables returns no table when no table rule matches.
C23_NoMatchGivesEmptyList ==
    \A k \in 1..Len(answer) :
        answer[k].call = "extract" =>
            /\ ColumnSection(statement, answer[k].query_type) = <<>> => answer[k].columns = <<>>
            /\ (answer[k].query_type = KW.insert /\ InsertWithoutColumns(Upper(statement)))
                   => answer[k].columns = <<>>
            /\ NoTableRuleMatches(statement, answer[k].query_type) => answer[k].tables = <<>>


(***************************************************************************)
(* Claims about the join info of the analyzer.                             *)
(***************************************************************************)
\* the statement of the record has a join, and one of the record's tables is
\* written more than once in it
JoinedTableRepeats(query) ==
    /\ Count(Upper(query.query_text), Spaced(KW.join)) >= 1
    /\ \E k \in 1..Len(query.tables) :
          StrCount(Upper(query.query_text), Upper(query.tables[k])) > 1
\* C26: the join info of an analyzed record has self_join = true exactly when
\* the statement has at least one join and a table of the record occurs more
\* than once in the text, in the join info analyze_queries stores on the
\* record as well as in the one detect_join_types returns.
C26_SelfJoinIffJoinedTableRepeats ==
    /\ \A k \in 2..Len(sql_query) :
          sql_query[k].join_types.self_join = JoinedTableRepeats(sql_query[k])
    /\ (answer # <<>> /\ answer[1].call = "detect_join_types")
          => answer[1].result.self_join = JoinedTableRepeats(sql_query[answer[1].passed])

\* the places of the upper-cased text where JOIN stands between two spaces
JoinTokens(U) == {i \in 1..Len(U) : LitAt(U, i, Spaced(KW.join))}
\* the statement has one JOIN and none of the words that name a kind of join
SinglePlainJoin(U) ==
    /\ Cardinality(JoinTokens(U)) = 1
    /\ \A kind \in {KW.inner, KW.left, KW.right, KW.full, KW.cross, KW.natural, KW.outer} :
          ~HasWord(U, kind)
join_kind_flags == {"inner_join", "left_join", "right_join", "full_join", "cross_join", "natural_join"}
AfterFirst(s, lit) ==
    IF ~HasSub(s, lit) THEN <<>>
    ELSE LET i == CHOOSE j \in 1..Len(s) : LitAt(s, j, lit) /\ \A h \in 1..(j - 1) : ~LitAt(s, h, lit)
         IN  SubSeq(s, i + Len(lit), Len(s))
\* the conditions after WHERE: the pieces between its ANDs and ORs
WhereConditions(U) ==
    IF ~HasSub(U, Spaced(KW.where)) THEN 0
    ELSE LET rest == <<" ">> \o AfterFirst(U, Spaced(KW.where))
         IN  1 + Count(rest, <<" ","A","N","D"," ">>) + Count(rest, <<" ","O","R"," ">>)
\* C28: the complexity of a record the pipeline produced (scanner, parse,
\* analyze_queries) includes min(2, c div 2) for the c conditions after its
\* WHERE: it is the score of the record with that many where_conditions, so
\* that four conditions score 2 more than one.
C28_WhereConditionsCounted ==
    \A k \in 2..Len(sql_query) :
       LET query == sql_query[k]
           conditions == [n \in 1..WhereConditions(Upper(query.query_text)) |-> <<"c">>]
       IN  query.complexity = DetermineQueryComplexity(query @@ [where_conditions |-> conditions])


(***************************************************************************)
(* Claim about the range of the complexity score.                          *)
(***************************************************************************)
\* C29: determine_query_complexity returns an integer in 0..24 for every
\* record: never negative, at least 1 when the type is SELECT or WITH, and
\* never above 24 = 1+3+2+3+3+1+2+2+1+1+2+1+2 for any combination of tables,
\* conditions, dialect features, joins and clauses.
C29_ComplexityInRange ==
    \A k \in 1..Len(score) :
       /\ score[k] \in 0..24
       /\ (k = 1 /\ ingredients.query_type \in {KW.select, KW.with}) => score[k] >= 1
\* a SELECT with every term at its cap
C29_Witness ==
    /\ score = <<24>> /\ ingredients.query_type = KW.select
    /\ ingredients.tables > complexity_terms.max_tables + 1
    /\ Len(ingredients.joins) > complexity_terms.max_joins

====
